---------------------------- MODULE Spec2Model ----------------------------
(***************************************************************************)
(* Dive planner: the setpoint list (SetPoints), the gas list (GasList),    *)
(* their binary files, the dive profile and its table, and the handlers    *)
(* of DivePlanWindow and GasListWindow.                                    *)
(*                                                                         *)
(* Units: depths are whole metres, setpoints are tenths of a bar, the      *)
(* PpO2 of a step is in hundredths of a bar, gas fractions are whole       *)
(* percent, times are whole minutes.  A file is the sequence of            *)
(* fixed-width fields written to it, in order; a missing file is NoFile.   *)
(***************************************************************************)
EXTENDS Integers, Sequences, FiniteSets

VARIABLES
    life,             \* "none" | "object" (SetPoints built) | "window" (DivePlanWindow built)
    m_depths,         \* SetPoints::m_depths
    m_setPoints,      \* SetPoints::m_setPoints
    oobRead,          \* sortSetPoints has read m_setPoints past its end
    spFile,           \* setpoints.dat
    env,              \* the data directory: can its files be opened for reading, for writing
    m_maxPpO2Diluent, \* g_parameters.m_maxPpO2Diluent
    gases,            \* GasList::gases
    gasFile,          \* gaslist.dat
    gasLife,          \* "none" | "object" (g_gasList built) | "window" (GasListWindow built)
    gasTable,         \* the O2 and He cells of gasTable, row by row
    stopSteps,        \* StopSteps::m_stopSteps
    m_isUpdating,     \* DivePlanWindow::m_isUpdating
    stopTable,        \* the rows of stopStepsTable as last drawn
    calls,            \* the handlers that are inside QApplication::processEvents
    timers,           \* the QTimer::singleShot fallbacks not yet fired
    stopOob,          \* a handler has indexed m_stopSteps out of range
    m_mode,           \* DivePlan::m_mode
    m_diveProfile,    \* DivePlan::m_diveProfile
    planTable,        \* the rows of divePlanTable as last drawn
    m_bailout,        \* DivePlan::m_bailout
    m_tableDirty,     \* DivePlanWindow::m_tableDirty
    planVisible,      \* divePlanTable->isVisible()
    planOpen,         \* the dive-plan section of verticalSplitter has a size above 0
    refreshScheduled, \* the QTimer::singleShot(0, refreshDivePlanTable) not yet fired
    last              \* the operation that ran last, its inputs and its result

vars == << life, m_depths, m_setPoints, oobRead, spFile, env, m_maxPpO2Diluent,
           gases, gasFile, gasLife, gasTable,
           stopSteps, m_isUpdating, stopTable, calls, timers, stopOob,
           m_mode, m_diveProfile, planTable,
           m_bailout, m_tableDirty, planVisible, planOpen, refreshScheduled, last >>

gasVars == << gases, gasFile, gasLife, gasTable >>
stopVars == << stopSteps, m_isUpdating, stopTable, calls, timers, stopOob >>
viewVars == << m_bailout, m_tableDirty, planVisible, planOpen, refreshScheduled >>
planVars == << m_mode, m_diveProfile, planTable, viewVars >>
spVars  == << life, m_depths, m_setPoints, oobRead, spFile, m_maxPpO2Diluent >>

-----------------------------------------------------------------------------
(* Bounds of the model *)

\* the public list operations add entries only below this length
MaxLen == 2

-----------------------------------------------------------------------------
(* Values *)

NoFile == << -1 >>

\* setToDefault(): the four entries, in the order they are added
DefaultDepths    == << 1000, 40, 21, 6 >>
DefaultSetPoints == << 13, 14, 15, 16 >>

\* what a read of m_setPoints past its end can yield
GarbageVals == { 0, 14 }

\* values a user types into the depth column and the setpoint column
EditDepths    == { 40 }
EditSetPoints == { 15 }

\* depths the planner asks a setpoint for
QueryDepths == { 0, 5, 6, 39, 40, 50 }
SomeDepths  == { 30 }

\* entries a caller hands to addSetPoint
ApiEntries == { << 40, 13 >> }

ParamVals == { 12, 16 }

NoGarbage == [ i \in {} |-> 0 ]

\* the record of an operation: its name, the depth (or row) and flag it was given, the
\* value it returned (ok for a bool, val for a number), the state of the file
\* it found, and whether it left the list it works on as it was
Rec(op, depth, boosted, ok, val, fileWas, kept) ==
    [ op |-> op, depth |-> depth, boosted |-> boosted,
      ok |-> ok, val |-> val, fileWas |-> fileWas, kept |-> kept,
      afterSave |-> FALSE ]

\* the record of a load: val is the length of the list the load found, and
\* afterSave says that the operation before it was a save that returned true
RecLoad(op, ok, len, fileWas, kept, saveOp) ==
    [ Rec(op, 0, FALSE, ok, len, fileWas, kept)
        EXCEPT !.afterSave = (last.op = saveOp /\ last.ok) ]

-----------------------------------------------------------------------------
(* SetPoints *)

\* a comparator that orders by depth alone
Before_DepthOnly(a, b) == a[1] > b[1]

\* the comparator handed to std::sort: decreasing depth, then decreasing setpoint
Before(a, b) == IF a[1] = b[1] THEN a[2] > b[2] ELSE a[1] > b[1]

RECURSIVE InsertSorted(_, _)
InsertSorted(p, s) ==
    IF s = << >> THEN << p >>
    ELSE IF Before(p, s[1]) THEN << p >> \o s
    ELSE << s[1] >> \o InsertSorted(p, Tail(s))

\* std::sort under Before (elements that compare equal are equal pairs)
RECURSIVE StdSort(_)
StdSort(s) == IF s = << >> THEN << >> ELSE InsertSorted(s[1], StdSort(Tail(s)))

\* sortSetPoints() on the vectors dep and sp; gf[i] is what the read of
\* m_setPoints[i] yields when i is past the end of sp
sortSetPoints(dep, sp, gf) ==
    LET pairs  == [ i \in 1..Len(dep) |->
                      << dep[i], IF i <= Len(sp) THEN sp[i] ELSE gf[i] >> ]
        sorted == StdSort(pairs)
    IN  [ depths    |-> [ i \in 1..Len(sorted) |-> sorted[i][1] ],
          setPoints |-> [ i \in 1..Len(sorted) |-> sorted[i][2] ],
          oob       |-> Len(dep) > Len(sp) ]

\* addSetPoint(depth, setpoint) on the vectors dep and sp
addSetPoint(dep, sp, depth, setpoint, gf) ==
    sortSetPoints(Append(dep, depth), Append(sp, setpoint), gf)

\* setToDefault(): four addSetPoint calls, each one sorting
RECURSIVE setToDefaultFrom(_, _, _, _, _)
setToDefaultFrom(dep, sp, oob, gf, k) ==
    IF k > Len(DefaultDepths) THEN [ depths |-> dep, setPoints |-> sp, oob |-> oob ]
    ELSE LET r == addSetPoint(dep, sp, DefaultDepths[k], DefaultSetPoints[k], gf)
         IN  setToDefaultFrom(r.depths, r.setPoints, oob \/ r.oob, gf, k + 1)

setToDefault(dep, sp, gf) == setToDefaultFrom(dep, sp, FALSE, gf, 1)

\* removeSetPoint(index), index counted from 0
removeSetPoint(dep, sp, index) ==
    IF index < Len(dep)
    THEN [ depths    |-> SubSeq(dep, 1, index) \o SubSeq(dep, index + 2, Len(dep)),
           setPoints |-> SubSeq(sp, 1, index) \o SubSeq(sp, index + 2, Len(sp)) ]
    ELSE [ depths |-> dep, setPoints |-> sp ]

\* Case C with the bracket closed at its deep end and open at its shallow end
RECURSIVE CaseC_Inclusive(_, _, _, _)
CaseC_Inclusive(dep, sp, depth, i) ==
    IF i > Len(dep) - 1 THEN sp[1]
    ELSE IF depth <= dep[i] /\ depth > dep[i + 1] THEN sp[i]
    ELSE CaseC_Inclusive(dep, sp, depth, i + 1)

\* Case C returning the setpoint of the shallower end of the bracket
RECURSIVE CaseC_NextEntry(_, _, _, _)
CaseC_NextEntry(dep, sp, depth, i) ==
    IF i > Len(dep) - 1 THEN sp[1]
    ELSE IF depth < dep[i] /\ depth >= dep[i + 1] THEN sp[i + 1]
    ELSE CaseC_NextEntry(dep, sp, depth, i + 1)

\* Case C of getSetPointAtDepth: the loop over i, then the fallback
RECURSIVE CaseC(_, _, _, _)
CaseC(dep, sp, depth, i) ==
    IF i > Len(dep) - 1 THEN sp[1]
    ELSE IF depth < dep[i] /\ depth >= dep[i + 1] THEN sp[i]
    ELSE CaseC(dep, sp, depth, i + 1)

\* the lookup with Case A taken on the depth alone
getSetPointAtDepth_IgnoresBoosted(dep, sp, depth, boosted, fallback) ==
    IF dep = << >> THEN fallback
    ELSE IF depth >= dep[1] THEN sp[1]
    ELSE IF depth < dep[Len(dep)] THEN sp[Len(dep)]
    ELSE CaseC(dep, sp, depth, 1)

\* the lookup answering 0.7 bar on an empty list
getSetPointAtDepth_FixedDefault(dep, sp, depth, boosted, fallback) ==
    IF dep = << >> THEN 7
    ELSE IF depth >= dep[1] \/ ~boosted THEN sp[1]
    ELSE IF depth < dep[Len(dep)] THEN sp[Len(dep)]
    ELSE CaseC(dep, sp, depth, 1)

\* getSetPointAtDepth(depth, boosted) on the vectors as sortSetPoints left them
getSetPointAtDepth(dep, sp, depth, boosted, fallback) ==
    IF dep = << >> THEN fallback
    ELSE IF depth >= dep[1] \/ ~boosted THEN sp[1]
    ELSE IF depth < dep[Len(dep)] THEN sp[Len(dep)]
    ELSE CaseC(dep, sp, depth, 1)


-----------------------------------------------------------------------------
(* setpoints.dat *)

FileState(file, canOpen) ==
    IF file = NoFile THEN "missing" ELSE IF canOpen THEN "ok" ELSE "unopenable"

\* the loop of saveSetPointsToFile writing one record per entry
RECURSIVE writeSetPoints(_, _, _, _)
writeSetPoints(dep, sp, count, i) ==
    IF i > count THEN << >>
    ELSE << dep[i], sp[i] >> \o writeSetPoints(dep, sp, count, i + 1)

\* saveSetPointsToFile(): the file it leaves and the value it returns
saveSetPointsToFile(dep, sp, file, canOpen) ==
    IF ~canOpen THEN [ file |-> file, ok |-> FALSE ]
    ELSE [ file |-> << Len(dep) >> \o writeSetPoints(dep, sp, Len(dep), 1),
           ok   |-> TRUE ]

\* file.read of one field: a read past the end of the file leaves the
\* variable as it was, which is whatever g the stack held
readField(words, pos, g) == IF pos <= Len(words) THEN words[pos] ELSE g

\* the read loop of loadSetPointsFromFile
RECURSIVE readSetPoints(_, _, _, _, _, _)
readSetPoints(words, count, i, dep, sp, g) ==
    IF i >= count THEN [ depths |-> dep, setPoints |-> sp ]
    ELSE readSetPoints(words, count, i + 1,
                       Append(dep, readField(words, 2 + 2 * i, g.depth)),
                       Append(sp, readField(words, 3 + 2 * i, g.setpoint)), g)

\* loadSetPointsFromFile(): both vectors are cleared first, whatever follows
loadSetPointsFromFile(file, canRead, canWrite, g) ==
    IF file = NoFile
    THEN LET d == setToDefault(<< >>, << >>, NoGarbage)
             w == saveSetPointsToFile(d.depths, d.setPoints, file, canWrite)
         IN  [ depths |-> d.depths, setPoints |-> d.setPoints,
               file |-> w.file, ok |-> FALSE ]
    ELSE IF ~canRead
    THEN [ depths |-> << >>, setPoints |-> << >>, file |-> file, ok |-> FALSE ]
    ELSE LET r == readSetPoints(file, file[1], 0, << >>, << >>, g)
             d == IF r.depths = << >>
                  THEN setToDefault(<< >>, << >>, NoGarbage)
                  ELSE r
         IN  [ depths |-> d.depths, setPoints |-> d.setPoints,
               file |-> file, ok |-> TRUE ]

-----------------------------------------------------------------------------
(* The stop steps and the stop-steps table *)

\* longest stop-step list the add button is pressed on
MaxStops == 2
\* handlers held inside processEvents at one time
MaxNest == 2
\* fallback timers pending at one time
MaxTimers == 2

STOP_COL_DEPTH  == 0
STOP_COL_TIME   == 1
STOP_COL_DELETE == 2

\* numbers a user types into a cell of the stop-steps table
StopCellValues == { 6 }

StopStep(depth, time) == [ m_depth |-> depth, m_time |-> time ]

\* the list kept in decreasing depth, a new element going after its equals
RECURSIVE InsertByDepth(_, _)
InsertByDepth(e, s) ==
    IF s = << >> THEN << e >>
    ELSE IF e.m_depth > s[1].m_depth THEN << e >> \o s
    ELSE << s[1] >> \o InsertByDepth(e, Tail(s))

RECURSIVE SortByDepth(_)
SortByDepth(s) ==
    IF s = << >> THEN << >>
    ELSE InsertByDepth(s[Len(s)], SortByDepth(SubSeq(s, 1, Len(s) - 1)))

\* StopSteps::addStopStep(depth, time)
StopSteps_addStopStep(st, depth, time) == SortByDepth(Append(st, StopStep(depth, time)))

\* StopSteps::removeStopStep(index); past the end of the vector the erase is
\* undefined: it is ignored, or it drops the last element
StopSteps_removeStopStep(st, index, dropsLast) ==
    IF index < Len(st) THEN SubSeq(st, 1, index) \o SubSeq(st, index + 2, Len(st))
    ELSE IF dropsLast THEN SubSeq(st, 1, Len(st) - 1)
    ELSE st

\* StopSteps::editStopStep(index, depth, time)
StopSteps_editStopStep(st, index, depth, time) ==
    IF index < Len(st)
    THEN SortByDepth([ st EXCEPT ![index + 1] = StopStep(depth, time) ])
    ELSE st

\* the rows refreshStopStepsTable draws: a delete button on row i when the
\* list has more than one element or i is not the last row
drawStopRows(st) ==
    [ i \in 1..Len(st) |->
        [ depth |-> st[i].m_depth, time |-> st[i].m_time,
          button |-> (Len(st) > 1 \/ (i - 1) < Len(st) - 1) ] ]

\* the rows refreshSetpointsTable draws, with the same test for the button
drawSetpointRows(dep, sp) ==
    [ i \in 1..Len(dep) |->
        [ depth |-> dep[i], setpoint |-> sp[i],
          button |-> (Len(dep) > 1 \/ (i - 1) < Len(dep) - 1) ] ]

\* a refresh that never draws
refreshStopStepsTable_Skips(updating, table, st) == table

\* refreshStopStepsTable(): skipped while m_isUpdating is set
refreshStopStepsTable(updating, table, st) ==
    IF updating THEN table ELSE drawStopRows(st)

\* a handler that has been dispatched and has not returned: it is inside
\* QApplication::processEvents or inside DivePlan::build()
Frame(name) == [ handler |-> name, at |-> "processEvents", changed |-> TRUE ]

\* what last holds when the handler of frame has returned: kept is whether
\* the handler left the stop steps as they were, val their number now
RecReturn(frame, n) ==
    [ op |-> "return", depth |-> 0, boosted |-> FALSE, ok |-> TRUE, val |-> n,
      fileWas |-> "none", kept |-> ~frame.changed, afterSave |-> FALSE,
      handler |-> frame.handler ]

\* the static isRebuilding of rebuildDivePlan(): a build() has not returned
isRebuilding == \E i \in 1..Len(calls) : calls[i].at = "build"

\* a dispatch that does not wait for build() to return
CanDispatch_DuringBuild == life = "window" /\ Len(calls) < MaxNest

\* events are dispatched by the event loop and by a processEvents call, on
\* the one thread that also runs build()
CanDispatch == life = "window" /\ Len(calls) < MaxNest /\ ~isRebuilding

-----------------------------------------------------------------------------
(* DivePlan: the profile, and the dive-plan table of DivePlanWindow *)

\* the depth and bottom time the window is opened with
PlanInputs == [ depth |-> 70, bottomTime |-> 20 ]

\* the PpO2 limits of the parameters, in hundredths of a bar
PpO2Bottom       == 140
m_PpO2Deco       == 160
m_warningPpO2Low == 70

\* the stop steps a new DivePlan holds
CtorStopSteps == << StopStep(21, 6) >>

\* the decompression stops the ascent loop comes to
DecoPlans == { << [ m_depth |-> 3, m_time |-> 1 ] >> }

DiveStep(phase, start, end, time) ==
    [ m_phase |-> phase, m_mode |-> "OC", m_startDepth |-> start, m_endDepth |-> end,
      m_time |-> time, m_pO2Max |-> 0 ]

\* an ascent to each stop of stops in turn and the stop itself, from depth prev
RECURSIVE Legs(_, _, _)
Legs(prev, stops, phase) ==
    IF stops = << >> THEN << >>
    ELSE LET d == stops[1].m_depth
             t == IF prev >= d THEN (prev - d) \div 9 ELSE (d - prev) \div 18
         IN  << DiveStep("ASCENT", prev, d, t), DiveStep(phase, d, d, stops[1].m_time) >>
             \o Legs(d, Tail(stops), phase)

LastDepth(steps, prev) == IF steps = << >> THEN prev ELSE steps[Len(steps)].m_endDepth

\* DivePlan::build(): descent, bottom, the stop steps in decreasing depth,
\* the decompression stops deco, and the ascent to the surface
build(st, deco) ==
    LET D == PlanInputs.depth
        head == << DiveStep("DESCENT", 0, D, D \div 18),
                   DiveStep("BOTTOM", D, D, PlanInputs.bottomTime) >>
        user == Legs(D, st, "STOP")
        stops == Legs(LastDepth(user, D), deco, "DECOSTOP")
        from == LastDepth(stops, LastDepth(user, D))
    IN  head \o user \o stops \o << DiveStep("ASCENT", from, 0, from \div 9) >>

MaxDepthOf(step) ==
    IF step.m_startDepth > step.m_endDepth THEN step.m_startDepth ELSE step.m_endDepth

\* the PpO2 of air at a depth, in hundredths of a bar
AirPpO2(depth) == (21 * (10 + depth)) \div 10

\* the inspired PpO2 at a depth: on closed circuit the setpoint, capped by
\* what the diluent gives at that depth
pO2At(depth, mode, dep, sp, fallback) ==
    IF mode = "CC"
    THEN LET s == 10 * getSetPointAtDepth(dep, sp, depth, FALSE, fallback)
         IN  IF s < AirPpO2(depth) THEN s ELSE AirPpO2(depth)
    ELSE AirPpO2(depth)

\* DivePlan::calculate(): the derived fields of each step, the list kept
calculate(profile, mode, dep, sp, fallback) ==
    [ i \in 1..Len(profile) |->
        [ profile[i] EXCEPT !.m_mode = mode,
                            !.m_pO2Max = pO2At(MaxDepthOf(profile[i]), mode, dep, sp, fallback) ] ]

\* highlightWarningCells(): the test that highlights the pO2 cell of a row
pO2Warning(step) ==
    step.m_pO2Max > m_PpO2Deco \/ step.m_pO2Max < m_warningPpO2Low

\* the rows refreshDivePlanTable draws, highlightWarningCells included
drawPlanRows(profile) ==
    [ i \in 1..Len(profile) |->
        [ phase |-> profile[i].m_phase, mode |-> profile[i].m_mode,
          time |-> profile[i].m_time, pO2Max |-> profile[i].m_pO2Max,
          pO2Warn |-> pO2Warning(profile[i]) ] ]

\* a refresh that builds the profile anew from the stop steps
refreshDivePlan_Rebuilds(profile, mode, dep, sp, fallback) ==
    LET p == calculate(build(stopSteps, CHOOSE deco \in DecoPlans : TRUE), mode, dep, sp,
                       fallback)
    IN  [ profile |-> p, table |-> drawPlanRows(p) ]

\* refreshDivePlan(): calculate, and the rows refreshDivePlanTable draws from
\* the profile when the table is shown
refreshDivePlan(profile, mode, dep, sp, fallback) ==
    LET p == calculate(profile, mode, dep, sp, fallback)
    IN  [ profile |-> p, table |-> drawPlanRows(p) ]

\* refreshDivePlan(): "isTableVisible"
TableShown == planVisible /\ planOpen

\* the profile and its table taking the result r of refreshDivePlan: the
\* table is drawn when it is shown and marked dirty when it is not;
\* rebuilt tells that rebuildDivePlan, which marks the table dirty, ran first
PlanTakes(r, rebuilt) ==
    /\ m_diveProfile' = r.profile
    /\ planTable' = IF TableShown THEN r.table ELSE planTable
    /\ m_tableDirty' = IF rebuilt \/ ~TableShown THEN TRUE ELSE m_tableDirty
    /\ UNCHANGED << planVisible, planOpen, refreshScheduled >>

\* a handler that calls refreshDivePlan alone
PlanBecomes(r) ==
    /\ PlanTakes(r, FALSE)
    /\ UNCHANGED m_bailout

\* a handler that calls rebuildDivePlan and then refreshDivePlan
PlanRebuilt(r) ==
    /\ PlanTakes(r, TRUE)
    /\ UNCHANGED m_bailout

-----------------------------------------------------------------------------
(* Operations on the SetPoints object *)

\* what the locals depth and setpoint hold after a read past the end of a
\* file that was cut short
ReadGarbage == [ depth : { 40 }, setpoint : GarbageVals ]

OobGarbage == { [ i \in 2..5 |-> v ] : v \in GarbageVals }

SameList(dep, sp) == dep = m_depths /\ sp = m_setPoints

\* SetPoints::SetPoints()
SetPointsCtor ==
    /\ life = "none"
    /\ \E g \in ReadGarbage, gf \in OobGarbage :
         LET l == loadSetPointsFromFile(spFile, env.readable, env.writable, g)
             d == IF l.ok
                  THEN [ depths |-> l.depths, setPoints |-> l.setPoints, oob |-> FALSE ]
                  ELSE setToDefault(l.depths, << >>, gf)
             s == sortSetPoints(d.depths, d.setPoints, gf)
         IN  /\ m_depths' = s.depths
             /\ m_setPoints' = s.setPoints
             /\ oobRead' = (d.oob \/ s.oob)
             /\ spFile' = l.file
             /\ last' = Rec("SetPoints", 0, FALSE, l.ok, 0,
                            FileState(spFile, env.readable), FALSE)
    /\ life' = "object"
    /\ UNCHANGED << stopVars, env, planVars, m_maxPpO2Diluent, gasVars >>

\* DivePlanWindow::DivePlanWindow, from the load of the setpoints on
DivePlanWindowCtor ==
    /\ life = "object"
    /\ \E g \in ReadGarbage :
         LET l == loadSetPointsFromFile(spFile, env.readable, env.writable, g)
             fix == ~l.ok /\ Len(l.depths) = 0
             a == IF fix THEN addSetPoint(l.depths, l.setPoints, 0, 7, NoGarbage)
                  ELSE [ depths |-> l.depths, setPoints |-> l.setPoints ]
             w == IF fix THEN saveSetPointsToFile(a.depths, a.setPoints, l.file, env.writable)
                  ELSE [ file |-> l.file, ok |-> TRUE ]
             s == sortSetPoints(a.depths, a.setPoints, NoGarbage)
         IN  /\ m_depths' = s.depths
             /\ m_setPoints' = s.setPoints
             /\ spFile' = w.file
             /\ last' = Rec("DivePlanWindow", 0, FALSE, l.ok, 0,
                            FileState(spFile, env.readable), FALSE)
             /\ \E deco \in DecoPlans :
                  LET r == refreshDivePlan(build(CtorStopSteps, deco), m_mode,
                                           s.depths, s.setPoints, m_maxPpO2Diluent)
                  IN  /\ m_diveProfile' = r.profile
                      /\ planTable' = r.table
    /\ m_tableDirty' = TRUE
    /\ stopSteps' = CtorStopSteps
    /\ stopTable' = drawStopRows(CtorStopSteps)
    /\ life' = "window"
    /\ UNCHANGED << m_isUpdating, calls, timers, stopOob, m_mode, oobRead, env,
                    m_maxPpO2Diluent, gasVars, m_bailout, planVisible, planOpen,
                    refreshScheduled >>

\* SetPoints::addSetPoint called by a client of the class
AddSetPoint ==
    /\ life = "object"
    /\ Len(m_depths) < MaxLen
    /\ \E e \in ApiEntries :
         LET r == addSetPoint(m_depths, m_setPoints, e[1], e[2], NoGarbage)
         IN  /\ m_depths' = r.depths
             /\ m_setPoints' = r.setPoints
             /\ last' = Rec("addSetPoint", 0, FALSE, TRUE, 0, "none", FALSE)
    /\ UNCHANGED << stopVars, life, oobRead, spFile, env, planVars, m_maxPpO2Diluent, gasVars >>

\* SetPoints::removeSetPoint called by a client of the class
RemoveSetPoint ==
    /\ life = "object"
    /\ \E index \in 0..Len(m_depths) :
         LET r == removeSetPoint(m_depths, m_setPoints, index)
         IN  /\ m_depths' = r.depths
             /\ m_setPoints' = r.setPoints
             /\ last' = Rec("removeSetPoint", 0, FALSE, TRUE, 0, "none",
                            SameList(r.depths, r.setPoints))
    /\ UNCHANGED << stopVars, life, oobRead, spFile, env, planVars, m_maxPpO2Diluent, gasVars >>

\* SetPoints::getSetPointAtDepth(depth, boosted), depth drawn from D
GetSetPointAtDepth(D) ==
    /\ life # "none"
    /\ \E depth \in D, boosted \in BOOLEAN :
         LET s == sortSetPoints(m_depths, m_setPoints, NoGarbage)
         IN  /\ m_depths' = s.depths
             /\ m_setPoints' = s.setPoints
             /\ last' = Rec("getSetPointAtDepth", depth, boosted, TRUE,
                            getSetPointAtDepth(s.depths, s.setPoints, depth, boosted,
                                               m_maxPpO2Diluent),
                            "none", SameList(s.depths, s.setPoints))
    /\ UNCHANGED << stopVars, life, oobRead, spFile, env, planVars, m_maxPpO2Diluent, gasVars >>

-----------------------------------------------------------------------------
(* The setpoint handlers of DivePlanWindow *)

SP_COL_DEPTH    == 0
SP_COL_SETPOINT == 1
SP_COL_DELETE   == 2

\* setpointCellChanged(row, column) with the cell holding the number value
SetpointCellChanged ==
    /\ CanDispatch
    /\ \E row \in 0..Len(m_depths), column \in { SP_COL_DEPTH, SP_COL_SETPOINT, SP_COL_DELETE } :
       \E value \in (IF column = SP_COL_DEPTH THEN EditDepths ELSE EditSetPoints) :
         LET valid == column \in { SP_COL_DEPTH, SP_COL_SETPOINT }
                      /\ ~(row < 0 \/ row >= Len(m_depths))
             depth    == IF column = SP_COL_DEPTH THEN value ELSE m_depths[row + 1]
             setpoint == IF column = SP_COL_DEPTH THEN m_setPoints[row + 1] ELSE value
             s == sortSetPoints([ m_depths EXCEPT ![row + 1] = depth ],
                                [ m_setPoints EXCEPT ![row + 1] = setpoint ], NoGarbage)
             w == saveSetPointsToFile(s.depths, s.setPoints, spFile, env.writable)
         IN  /\ m_depths' = IF valid THEN s.depths ELSE m_depths
             /\ m_setPoints' = IF valid THEN s.setPoints ELSE m_setPoints
             /\ spFile' = IF valid THEN w.file ELSE spFile
             /\ last' = Rec("setpointCellChanged", 0, FALSE, valid /\ w.ok, 0, "none",
                            ~valid \/ SameList(s.depths, s.setPoints))
             /\ IF valid
                THEN PlanBecomes(refreshDivePlan(m_diveProfile, m_mode, s.depths, s.setPoints,
                                                 m_maxPpO2Diluent))
                ELSE UNCHANGED << m_diveProfile, planTable, viewVars >>
    /\ UNCHANGED << stopVars, life, oobRead, env, m_mode, m_maxPpO2Diluent, gasVars >>

\* DivePlanWindow::addSetpoint()
AddSetpointGui ==
    /\ CanDispatch
    /\ Len(m_depths) < MaxLen
    /\ LET lastDepth    == IF Len(m_depths) > 0 THEN m_depths[1] ELSE 0
           lastSetpoint == IF Len(m_depths) > 0 THEN m_setPoints[1] ELSE 7
           r == addSetPoint(m_depths, m_setPoints, lastDepth, lastSetpoint, NoGarbage)
           w == saveSetPointsToFile(r.depths, r.setPoints, spFile, env.writable)
       IN  /\ m_depths' = r.depths
           /\ m_setPoints' = r.setPoints
           /\ spFile' = w.file
           /\ last' = Rec("addSetpoint", 0, FALSE, w.ok, 0, "none", FALSE)
           /\ PlanBecomes(refreshDivePlan(m_diveProfile, m_mode, r.depths, r.setPoints,
                                          m_maxPpO2Diluent))
    /\ UNCHANGED << stopVars, life, oobRead, env, m_mode, m_maxPpO2Diluent, gasVars >>

\* a guard that lets the only setpoint go
KeepsOneSetpoint_None(n) == n > 0

\* "Ensure we maintain at least one setpoint"
KeepsOneSetpoint(n) == n > 1

\* DivePlanWindow::deleteSetpoint(row)
DeleteSetpointGui ==
    /\ CanDispatch
    /\ \E row \in 0..Len(m_depths) :
         LET valid == ~(row < 0 \/ row >= Len(m_depths)) /\ KeepsOneSetpoint(Len(m_depths))
             r == removeSetPoint(m_depths, m_setPoints, row)
             w == saveSetPointsToFile(r.depths, r.setPoints, spFile, env.writable)
         IN  /\ m_depths' = IF valid THEN r.depths ELSE m_depths
             /\ m_setPoints' = IF valid THEN r.setPoints ELSE m_setPoints
             /\ spFile' = IF valid THEN w.file ELSE spFile
             /\ last' = Rec("deleteSetpoint", row, FALSE, valid /\ w.ok, Len(m_depths),
                            "none", SameList(m_depths', m_setPoints'))
             /\ IF valid
                THEN PlanBecomes(refreshDivePlan(m_diveProfile, m_mode, r.depths, r.setPoints,
                                                 m_maxPpO2Diluent))
                ELSE UNCHANGED << m_diveProfile, planTable, viewVars >>
    /\ UNCHANGED << stopVars, life, oobRead, env, m_mode, m_maxPpO2Diluent, gasVars >>

-----------------------------------------------------------------------------
(* The planner services called from DivePlanWindow *)

\* the first-stop time getMaxTimeAndTTS() comes back with
MaxTimes == { 9 }

\* what last holds after a planner service: cancel is whether the user asked
\* for the run to be cancelled while it iterated, ok whether it came back
\* with a result, kept whether the profile is as it was before the call
RecService(op, index, cancel, ok, val, kept) ==
    [ op |-> op, depth |-> index, boosted |-> FALSE, ok |-> ok, val |-> val,
      fileWas |-> "none", kept |-> kept, afterSave |-> FALSE, cancel |-> cancel ]

\* a search that stays at the step it starts from
firstStopIndex_Zero(profile) == 0

\* "find the first stop step": the index, from 0, of the first step after
\* step 0 whose phase is Phase::STOP, and 0 when there is none
firstStopIndex(profile) ==
    LET S == { i \in 1..(Len(profile) - 1) : profile[i + 1].m_phase = "STOP" }
    IN  IF S = {} THEN 0 ELSE CHOOSE i \in S : \A j \in S : i <= j

\* DivePlanWindow::setMaxTime(); getMaxTimeAndTTS() takes no cancellation
\* token and returns the pair it has found
SetMaxTime ==
    /\ CanDispatch
    /\ m_diveProfile # << >>
    /\ \E t \in MaxTimes, cancel \in BOOLEAN :
         LET firstStop == firstStopIndex(m_diveProfile)
             p == [ m_diveProfile EXCEPT ![firstStop + 1].m_time = t ]
             c == calculate(p, m_mode, m_depths, m_setPoints, m_maxPpO2Diluent)
         IN  /\ PlanBecomes(refreshDivePlan(c, m_mode, m_depths, m_setPoints,
                                            m_maxPpO2Diluent))
             /\ last' = RecService("setMaxTime", firstStop, cancel, TRUE, t,
                                   m_diveProfile' = m_diveProfile)
    /\ stopTable' = refreshStopStepsTable(m_isUpdating, stopTable, stopSteps)
    /\ UNCHANGED << spVars, env, m_mode, gasVars, stopSteps, m_isUpdating, calls,
                    timers, stopOob >>

\* DivePlanWindow::optimiseDecoGas(); DivePlan::optimiseDecoGas() takes no
\* cancellation token and its result is not looked at
OptimiseDecoGas ==
    /\ CanDispatch
    /\ \E cancel \in BOOLEAN :
         last' = RecService("optimiseDecoGas", 0, cancel, TRUE, 0, TRUE)
    /\ UNCHANGED << spVars, env, planVars, gasVars, stopVars >>

\* DivePlanWindow::ccModeActivated()
CcModeActivated ==
    /\ CanDispatch
    /\ m_mode' = "CC"
    /\ \E deco \in DecoPlans :
         PlanRebuilt(refreshDivePlan(build(stopSteps, deco), "CC", m_depths, m_setPoints,
                                     m_maxPpO2Diluent))
    /\ stopTable' = refreshStopStepsTable(m_isUpdating, stopTable, stopSteps)
    /\ last' = Rec("ccModeActivated", 0, FALSE, TRUE, 0, "none", FALSE)
    /\ UNCHANGED << spVars, env, gasVars, stopSteps, m_isUpdating, calls, timers, stopOob >>

-----------------------------------------------------------------------------
(* SetPoints::loadSetPointsFromFile and saveSetPointsToFile called by a client *)

LoadSetPoints ==
    /\ life = "object"
    /\ \E g \in ReadGarbage :
         LET l == loadSetPointsFromFile(spFile, env.readable, env.writable, g)
         IN  /\ m_depths' = l.depths
             /\ m_setPoints' = l.setPoints
             /\ spFile' = l.file
             /\ last' = RecLoad("loadSetPointsFromFile", l.ok, Len(m_depths),
                                FileState(spFile, env.readable),
                                SameList(l.depths, l.setPoints), "saveSetPointsToFile")
    /\ UNCHANGED << stopVars, life, oobRead, env, planVars, m_maxPpO2Diluent, gasVars >>

SaveSetPoints ==
    /\ life = "object"
    /\ LET w == saveSetPointsToFile(m_depths, m_setPoints, spFile, env.writable)
       IN  /\ spFile' = w.file
           /\ last' = Rec("saveSetPointsToFile", 0, FALSE, w.ok, 0, "none", TRUE)
    /\ UNCHANGED << stopVars, life, m_depths, m_setPoints, oobRead, env, planVars, m_maxPpO2Diluent, gasVars >>

-----------------------------------------------------------------------------
(* GasList *)

GasTypes    == { "BOTTOM", "DECO", "DILUENT" }
GasStatuses == { "ACTIVE", "INACTIVE" }

\* Gas::Gas(o2Percent, hePercent, gasType, gasStatus)
Gas(o2, he, type, status) ==
    [ m_o2Percent |-> o2, m_hePercent |-> he, m_gasType |-> type, m_gasStatus |-> status ]

\* the mixes Gas::Gas accepts; any other is rejected with InvalidGasMix, an
\* exception that leaves the caller's list as it was
ValidMix(o2, he) ==
    /\ 0 <= o2 /\ o2 <= 100
    /\ 0 <= he /\ he <= 100
    /\ o2 + he <= 100

\* addGas(...) on the vector gs
addGas(gs, o2, he, type, status) ==
    IF ValidMix(o2, he) THEN Append(gs, Gas(o2, he, type, status)) ELSE gs

\* an edit that stores the fields without building a Gas from them
editGas_Unchecked(gs, index, o2, he, type, status) ==
    [ gs EXCEPT ![index + 1] = Gas(o2, he, type, status) ]

\* editGas(index, ...), index counted from 0 and within the vector
editGas(gs, index, o2, he, type, status) ==
    IF ValidMix(o2, he) THEN [ gs EXCEPT ![index + 1] = Gas(o2, he, type, status) ] ELSE gs

\* deleteGas(index), index counted from 0
deleteGas(gs, index) == SubSeq(gs, 1, index) \o SubSeq(gs, index + 2, Len(gs))

\* the loop of saveGaslistToFile writing four fields per gas
RECURSIVE writeGases(_, _)
writeGases(gs, i) ==
    IF i > Len(gs) THEN << >>
    ELSE << gs[i].m_o2Percent, gs[i].m_hePercent, gs[i].m_gasType, gs[i].m_gasStatus >>
         \o writeGases(gs, i + 1)

\* saveGaslistToFile(): the file it leaves and the value it returns
saveGaslistToFile(gs, file, canOpen) ==
    IF ~canOpen THEN [ file |-> file, ok |-> FALSE ]
    ELSE [ file |-> << Len(gs) >> \o writeGases(gs, 1), ok |-> TRUE ]

\* one pass of the read loop that never reads the status field
readGas_NoStatus(words, i) ==
    Gas(readField(words, 2 + 4 * i, 0), readField(words, 3 + 4 * i, 0),
        readField(words, 4 + 4 * i, "BOTTOM"), "ACTIVE")

\* one pass of the read loop with every field read in the order written
readGas(words, i) ==
    Gas(readField(words, 2 + 4 * i, 0), readField(words, 3 + 4 * i, 0),
        readField(words, 4 + 4 * i, "BOTTOM"), readField(words, 5 + 4 * i, "ACTIVE"))

\* the read loop of loadGaslistFromFile: each local starts from its
\* initialiser, which a read past the end of the file leaves in place; a
\* record Gas::Gas rejects ends the loop in the catch clause
RECURSIVE readGases(_, _, _, _)
readGases(words, count, i, gs) ==
    IF i >= count THEN [ gases |-> gs, threw |-> FALSE ]
    ELSE LET g == readGas(words, i)
         IN  IF ValidMix(g.m_o2Percent, g.m_hePercent)
             THEN readGases(words, count, i + 1, Append(gs, g))
             ELSE [ gases |-> gs, threw |-> TRUE ]

\* the load seeding the default gas whatever the list holds
loadGaslistFromFile_AlwaysSeeds(gs, file, canRead, canWrite) ==
    IF file = NoFile
    THEN LET d == addGas(gs, 21, 0, "BOTTOM", "ACTIVE")
             w == saveGaslistToFile(d, file, canWrite)
         IN  [ gases |-> d, file |-> w.file, ok |-> FALSE ]
    ELSE IF ~canRead
    THEN [ gases |-> gs, file |-> file, ok |-> FALSE ]
    ELSE LET r == readGases(file, readField(file, 1, 0), 0, << >>)
         IN  [ gases |-> r.gases, file |-> file, ok |-> ~r.threw ]

\* loadGaslistFromFile() of gaslist.cpp
loadGaslistFromFile(gs, file, canRead, canWrite) ==
    IF file = NoFile
    THEN LET d == IF gs = << >> THEN addGas(gs, 21, 0, "BOTTOM", "ACTIVE") ELSE gs
             w == saveGaslistToFile(d, file, canWrite)
         IN  [ gases |-> d, file |-> w.file, ok |-> FALSE ]
    ELSE IF ~canRead
    THEN [ gases |-> gs, file |-> file, ok |-> FALSE ]
    ELSE LET r == readGases(file, readField(file, 1, 0), 0, << >>)
         IN  [ gases |-> r.gases, file |-> file, ok |-> ~r.threw ]

\* the read loop of the revision that tests file.fail() after each record
\* and throws: the gases added before the throw stay in the list
RECURSIVE readGasesChecked(_, _, _, _)
readGasesChecked(words, count, i, gs) ==
    IF i >= count THEN [ gases |-> gs, failed |-> FALSE ]
    ELSE IF 5 + 4 * i > Len(words) THEN [ gases |-> gs, failed |-> TRUE ]
    ELSE LET g == readGas(words, i)
         IN  IF ValidMix(g.m_o2Percent, g.m_hePercent)
             THEN readGasesChecked(words, count, i + 1, Append(gs, g))
             ELSE [ gases |-> gs, failed |-> TRUE ]

\* ErrorHandler::tryFileOperation: false when the operation threw
tryFileOperation(threw) == ~threw

\* loadGaslistFromFile() of the revision built on tryFileOperation
loadGaslistFromFileChecked(gs, file, canRead, canWrite) ==
    IF file = NoFile
    THEN LET d == IF gs = << >> THEN addGas(gs, 21, 0, "BOTTOM", "ACTIVE") ELSE gs
             w == saveGaslistToFile(d, file, canWrite)
         IN  [ gases |-> d, file |-> w.file, ok |-> FALSE ]
    ELSE IF ~canRead
    THEN [ gases |-> gs, file |-> file, ok |-> tryFileOperation(TRUE) ]
    ELSE LET r == readGasesChecked(file, readField(file, 1, 0), 0, << >>)
         IN  [ gases |-> r.gases, file |-> file, ok |-> tryFileOperation(r.failed) ]

\* longest gas list addGas is called on
MaxGases == 2

\* the mixes a caller hands to addGas
GasInputs == { Gas(21, 0, "BOTTOM", "ACTIVE"), Gas(50, 0, "DECO", "INACTIVE") }

\* GasList::GasList()
GasListCtor ==
    /\ gasLife = "none"
    /\ LET l == loadGaslistFromFile(gases, gasFile, env.readable, env.writable)
       IN  /\ gases' = l.gases
           /\ gasFile' = l.file
           /\ last' = Rec("GasList", 0, FALSE, l.ok, 0, FileState(gasFile, env.readable), FALSE)
    /\ gasLife' = "object"
    /\ UNCHANGED << gasTable, stopVars, spVars, env, planVars >>

\* GasList::addGas called by a client
AddGas ==
    /\ gasLife = "object"
    /\ Len(gases) < MaxGases
    /\ \E g \in GasInputs :
         gases' = addGas(gases, g.m_o2Percent, g.m_hePercent, g.m_gasType, g.m_gasStatus)
    /\ last' = Rec("addGas", 0, FALSE, TRUE, 0, "none", FALSE)
    /\ UNCHANGED << gasTable, stopVars, spVars, env, planVars, gasFile, gasLife >>

\* GasList::deleteGas called with an index of the list
DeleteGas ==
    /\ gasLife = "object"
    /\ \E index \in 0..(Len(gases) - 1) : gases' = deleteGas(gases, index)
    /\ last' = Rec("deleteGas", 0, FALSE, TRUE, 0, "none", FALSE)
    /\ UNCHANGED << gasTable, stopVars, spVars, env, planVars, gasFile, gasLife >>

\* GasList::clearGaslist
ClearGaslist ==
    /\ gasLife = "object"
    /\ gases' = << >>
    /\ last' = Rec("clearGaslist", 0, FALSE, TRUE, 0, "none", gases = << >>)
    /\ UNCHANGED << gasTable, stopVars, spVars, env, planVars, gasFile, gasLife >>

\* GasList::loadGaslistFromFile called on the built list
LoadGaslist ==
    /\ gasLife = "object"
    /\ LET l == loadGaslistFromFile(gases, gasFile, env.readable, env.writable)
       IN  /\ gases' = l.gases
           /\ gasFile' = l.file
           /\ last' = RecLoad("loadGaslistFromFile", l.ok, Len(gases),
                              FileState(gasFile, env.readable), l.gases = gases,
                              "saveGaslistToFile")
    /\ UNCHANGED << gasTable, stopVars, spVars, env, planVars, gasLife >>

\* the same call in the revision built on tryFileOperation
LoadGaslistChecked ==
    /\ gasLife = "object"
    /\ LET l == loadGaslistFromFileChecked(gases, gasFile, env.readable, env.writable)
       IN  /\ gases' = l.gases
           /\ gasFile' = l.file
           /\ last' = RecLoad("loadGaslistFromFile", l.ok, Len(gases),
                              FileState(gasFile, env.readable), l.gases = gases,
                              "saveGaslistToFile")
    /\ UNCHANGED << gasTable, stopVars, spVars, env, planVars, gasLife >>

\* GasList::saveGaslistToFile
SaveGaslist ==
    /\ gasLife = "object"
    /\ LET w == saveGaslistToFile(gases, gasFile, env.writable)
       IN  /\ gasFile' = w.file
           /\ last' = Rec("saveGaslistToFile", 0, FALSE, w.ok, 0, "none", TRUE)
    /\ UNCHANGED << gasTable, stopVars, spVars, env, planVars, gases, gasLife >>

GasIdle == gases = << >> /\ gasFile = NoFile /\ gasLife = "none" /\ gasTable = << >>

-----------------------------------------------------------------------------
(* The setpoint list from construction on *)

\* setpoints.dat as the program can find it at start-up: absent, holding a
\* count and its records, or cut short after the first record
InitSpFiles ==
    { NoFile, << 0 >>, << 2, 6, 16, 40, 14 >>, << 2, 40, 14 >> }

StopIdle ==
    /\ stopSteps = << >>
    /\ m_isUpdating = FALSE
    /\ stopTable = << >>
    /\ calls = << >>
    /\ timers = 0
    /\ stopOob = FALSE

\* the dive-plan section as the user has opened it, its table visible
ViewOpen ==
    /\ m_bailout = FALSE
    /\ planVisible = TRUE
    /\ planOpen = TRUE
    /\ refreshScheduled = 0

PlanIdle ==
    /\ m_mode = "CC"
    /\ m_diveProfile = << >>
    /\ planTable = << >>
    /\ m_tableDirty = FALSE
    /\ ViewOpen

InitCommon ==
    /\ StopIdle
    /\ PlanIdle
    /\ last = Rec("init", 0, FALSE, TRUE, 0, "none", TRUE)

InitSetPoints ==
    /\ life = "none"
    /\ m_depths = << >>
    /\ m_setPoints = << >>
    /\ oobRead = FALSE
    /\ spFile \in InitSpFiles
    /\ env \in [ readable : BOOLEAN, writable : BOOLEAN ]
    /\ m_maxPpO2Diluent \in ParamVals
    /\ GasIdle
    /\ InitCommon

NextSetPoints ==
    \/ SetPointsCtor
    \/ DivePlanWindowCtor
    \/ AddSetPoint
    \/ RemoveSetPoint
    \/ GetSetPointAtDepth(SomeDepths)
    \/ SetpointCellChanged
    \/ AddSetpointGui
    \/ DeleteSetpointGui

SpecSetPoints == InitSetPoints /\ [][NextSetPoints]_vars

-----------------------------------------------------------------------------
(* The dive plan of a window: construction, setpoint edits, planner services *)

InitPlan ==
    /\ life = "none"
    /\ m_depths = << >>
    /\ m_setPoints = << >>
    /\ oobRead = FALSE
    /\ spFile \in InitSpFiles
    /\ env \in [ readable : BOOLEAN, writable : { TRUE } ]
    /\ m_maxPpO2Diluent = 16
    /\ GasIdle
    /\ StopIdle
    /\ m_mode \in { "OC", "CC" }
    /\ m_diveProfile = << >>
    /\ planTable = << >>
    /\ m_tableDirty = FALSE
    /\ ViewOpen
    /\ last = Rec("init", 0, FALSE, TRUE, 0, "none", TRUE)

NextPlan ==
    \/ SetPointsCtor
    \/ DivePlanWindowCtor
    \/ SetpointCellChanged
    \/ AddSetpointGui
    \/ DeleteSetpointGui
    \/ SetMaxTime
    \/ OptimiseDecoGas
    \/ CcModeActivated

SpecPlan == InitPlan /\ [][NextPlan]_vars

-----------------------------------------------------------------------------
(* The lookup alone, on lists drawn from a bounded set *)

\* longest list the lookup is tried on
MaxLookupLen == 3

LookupEntries == { 6, 40 } \X { 10, 13 }

Sorted(dep, sp) ==
    \A i \in 1..(Len(dep) - 1) :
        \/ dep[i] > dep[i + 1]
        \/ dep[i] = dep[i + 1] /\ sp[i] >= sp[i + 1]

LookupLists ==
    UNION { [ 1..n -> LookupEntries ] : n \in 0..MaxLookupLen }

InitLookup ==
    /\ life = "object"
    /\ \E l \in LookupLists :
         /\ m_depths = [ i \in 1..Len(l) |-> l[i][1] ]
         /\ m_setPoints = [ i \in 1..Len(l) |-> l[i][2] ]
    /\ Sorted(m_depths, m_setPoints)
    /\ oobRead = FALSE
    /\ spFile = NoFile
    /\ env = [ readable |-> TRUE, writable |-> TRUE ]
    /\ m_maxPpO2Diluent \in ParamVals
    /\ GasIdle
    /\ InitCommon

NextLookup == GetSetPointAtDepth(QueryDepths)

SpecLookup == InitLookup /\ [][NextLookup]_vars

-----------------------------------------------------------------------------
(* Loading and saving: a run works on the setpoint list or on the gas list; *)
(* the two share no state but the data directory                           *)

\* setpoints.dat as an earlier run left it, or cut short
PersistSpFiles == { << 0 >>, << 2, 40, 14, 6, 16 >>, << 2, 40, 14 >> }

\* gaslist.dat: absent, as an earlier run left it, or cut short
PersistGasFiles ==
    { NoFile, << 0 >>, << 1, 50, 0, "DECO", "INACTIVE" >>,
      << 2, 50, 0, "DECO", "INACTIVE" >>, << 2, 50, 0, "DECO", "INACTIVE", 21, 0 >> }

InitPersist ==
    /\ life = "none"
    /\ m_depths = << >>
    /\ m_setPoints = << >>
    /\ oobRead = FALSE
    /\ m_maxPpO2Diluent \in { 12 }
    /\ gases = << >>
    /\ gasLife = "none"
    /\ gasTable = << >>
    /\ env \in [ readable : BOOLEAN, writable : BOOLEAN ]
    /\ \/ spFile \in PersistSpFiles /\ gasFile = NoFile
       \/ spFile = NoFile /\ gasFile \in PersistGasFiles
    /\ InitCommon

NextPersist ==
    \/ spFile # NoFile /\ gasLife = "none" /\ SetPointsCtor
    \/ RemoveSetPoint
    \/ LoadSetPoints
    \/ SaveSetPoints
    \/ life = "none" /\ GasListCtor
    \/ AddGas
    \/ DeleteGas
    \/ ClearGaslist
    \/ LoadGaslist
    \/ LoadGaslistChecked
    \/ SaveGaslist

SpecPersist == InitPersist /\ [][NextPersist]_vars

-----------------------------------------------------------------------------
(* The stop-step handlers of DivePlanWindow *)

\* a test of the flag that lets every call through
SkipsWhileUpdating_Never(updating) == FALSE

\* "if (m_isUpdating) return" at the head of addStopStep and deleteStopStep
SkipsWhileUpdating(updating) == updating

\* addStopStep() up to its call of processEvents
AddStopStepEnter ==
    /\ CanDispatch
    /\ Len(stopSteps) < MaxStops
    /\ timers < MaxTimers
    /\ IF SkipsWhileUpdating(m_isUpdating)
       THEN /\ last' = Rec("addStopStep", 0, FALSE, FALSE, Len(stopSteps), "none", TRUE)
            /\ UNCHANGED stopVars
       ELSE LET lastDepth == IF Len(stopSteps) > 0 THEN stopSteps[1].m_depth ELSE 0
                lastTime  == IF Len(stopSteps) > 0 THEN stopSteps[1].m_time ELSE 0
                st == StopSteps_addStopStep(stopSteps, lastDepth, lastTime)
            IN  /\ stopSteps' = st
                /\ m_isUpdating' = TRUE
                /\ stopTable' = refreshStopStepsTable(TRUE, stopTable, st)
                /\ calls' = Append(calls, Frame("addStopStep"))
                /\ last' = Rec("addStopStep", 0, FALSE, TRUE, Len(stopSteps), "none", FALSE)
                /\ UNCHANGED << timers, stopOob >>
    /\ UNCHANGED << spVars, env, planVars, gasVars >>

\* rebuildDivePlan() from the return of build() on, as far as the
\* stop-steps table goes
rebuildDivePlan(updating, table, st) == refreshStopStepsTable(updating, table, st)

\* addStopStep() and deleteStopStep() from the return of processEvents to
\* the call of build() in rebuildDivePlan()
StopStepHandlerBuild ==
    /\ calls # << >>
    /\ calls[Len(calls)].handler \in { "addStopStep", "deleteStopStep" }
    /\ calls[Len(calls)].at = "processEvents"
    /\ ~isRebuilding
    /\ calls' = [ calls EXCEPT ![Len(calls)].at = "build" ]
    /\ last' = [ last EXCEPT !.op = "build" ]
    /\ UNCHANGED << stopSteps, m_isUpdating, stopTable, timers, stopOob,
                    spVars, env, planVars, gasVars >>

\* addStopStep() and deleteStopStep() from the return of build() on, or
\* from the return of processEvents on when rebuildDivePlan() returns at
\* its isRebuilding test
StopStepHandlerReturn ==
    /\ calls # << >>
    /\ calls[Len(calls)].handler \in { "addStopStep", "deleteStopStep" }
    /\ calls[Len(calls)].at = "build" \/ isRebuilding
    /\ \E deco \in DecoPlans :
         LET built == calls[Len(calls)].at = "build"
             p == IF built THEN build(stopSteps, deco) ELSE m_diveProfile
         IN  /\ stopTable' = IF built
                             THEN rebuildDivePlan(m_isUpdating, stopTable, stopSteps)
                             ELSE stopTable
             /\ PlanRebuilt(refreshDivePlan(p, m_mode, m_depths, m_setPoints,
                                            m_maxPpO2Diluent))
    /\ m_isUpdating' = FALSE
    /\ timers' = timers + 1
    /\ calls' = SubSeq(calls, 1, Len(calls) - 1)
    /\ last' = RecReturn(calls[Len(calls)], Len(stopSteps))
    /\ UNCHANGED << stopSteps, stopOob, spVars, env, m_mode, gasVars >>

\* a guard that lets the only stop step go
MayDelete_Any(n) == n > 0

\* "Ensure we maintain at least one stop step"
MayDelete(n) == n > 1

\* deleteStopStep(row), row being that of a delete button of the table
DeleteStopStepEnter ==
    /\ CanDispatch
    /\ timers < MaxTimers
    /\ \E row \in 0..(Len(stopTable) - 1), dropsLast \in BOOLEAN :
         /\ stopTable[row + 1].button
         /\ IF SkipsWhileUpdating(m_isUpdating)
            THEN /\ last' = Rec("deleteStopStep", 0, FALSE, FALSE, Len(stopSteps), "none", TRUE)
                 /\ UNCHANGED stopVars
            ELSE IF MayDelete(Len(stopSteps))
            THEN LET st == StopSteps_removeStopStep(stopSteps, row, dropsLast)
                 IN  /\ stopSteps' = st
                     /\ m_isUpdating' = TRUE
                     /\ stopTable' = refreshStopStepsTable(TRUE, stopTable, st)
                     /\ calls' = Append(calls, [ Frame("deleteStopStep")
                                                   EXCEPT !.changed = (st # stopSteps) ])
                     /\ stopOob' = (stopOob \/ row >= Len(stopSteps))
                     /\ last' = Rec("deleteStopStep", 0, FALSE, TRUE, Len(stopSteps),
                                    "none", st = stopSteps)
                     /\ UNCHANGED timers
            ELSE /\ timers' = timers + 1
                 /\ last' = Rec("deleteStopStep", 0, FALSE, TRUE, Len(stopSteps), "none", TRUE)
                 /\ UNCHANGED << stopSteps, m_isUpdating, stopTable, calls, stopOob >>
    /\ UNCHANGED << spVars, env, planVars, gasVars >>

\* stopStepCellChanged(row, column) with the cell holding the number value,
\* up to its call of processEvents
StopStepCellChangedEnter ==
    /\ CanDispatch
    /\ \E row \in 0..(Len(stopTable) - 1),
          column \in { STOP_COL_DEPTH, STOP_COL_TIME, STOP_COL_DELETE },
          value \in StopCellValues :
         IF column = STOP_COL_DEPTH \/ column = STOP_COL_TIME
         THEN LET inRange == row < Len(stopSteps)
                  depth == IF column = STOP_COL_DEPTH THEN value
                           ELSE IF inRange THEN stopSteps[row + 1].m_depth ELSE 0
                  time  == IF column = STOP_COL_DEPTH
                           THEN (IF inRange THEN stopSteps[row + 1].m_time ELSE 0)
                           ELSE value
                  st == StopSteps_editStopStep(stopSteps, row, depth, time)
                  typed == IF column = STOP_COL_DEPTH
                           THEN [ stopTable EXCEPT ![row + 1].depth = value ]
                           ELSE [ stopTable EXCEPT ![row + 1].time = value ]
              IN  /\ stopSteps' = st
                  /\ stopOob' = (stopOob \/ ~inRange)
                  /\ stopTable' = rebuildDivePlan(m_isUpdating, typed, st)
                  /\ \E deco \in DecoPlans :
                       PlanRebuilt(refreshDivePlan(build(st, deco), m_mode, m_depths,
                                                   m_setPoints, m_maxPpO2Diluent))
                  /\ calls' = Append(calls, [ Frame("stopStepCellChanged")
                                                EXCEPT !.changed = (st # stopSteps) ])
                  /\ last' = Rec("stopStepCellChanged", 0, FALSE, TRUE, Len(stopSteps),
                                 "none", st = stopSteps)
                  /\ UNCHANGED << m_isUpdating, timers >>
         ELSE /\ last' = Rec("stopStepCellChanged", 0, FALSE, FALSE, Len(stopSteps),
                             "none", TRUE)
              /\ UNCHANGED << stopVars, m_diveProfile, planTable, viewVars >>
    /\ UNCHANGED << spVars, env, m_mode, gasVars >>

\* stopStepCellChanged from the return of processEvents on
StopStepCellChangedReturn ==
    /\ calls # << >>
    /\ calls[Len(calls)].handler = "stopStepCellChanged"
    /\ calls' = SubSeq(calls, 1, Len(calls) - 1)
    /\ last' = RecReturn(calls[Len(calls)], Len(stopSteps))
    /\ UNCHANGED << stopSteps, m_isUpdating, stopTable, timers, stopOob,
                    spVars, env, planVars, gasVars >>

\* DivePlanWindow::activate(), from a mouse release on the window: the main
\* window is told to make this one active unless m_isUpdating is set
Activate ==
    /\ CanDispatch
    /\ last' = Rec("activate", 0, FALSE, ~m_isUpdating, Len(stopSteps), "none", TRUE)
    /\ UNCHANGED << stopVars, spVars, env, planVars, gasVars >>

\* the lambda of QTimer::singleShot(100, ...)
FallbackTimer ==
    /\ CanDispatch
    /\ timers > 0
    /\ timers' = timers - 1
    /\ stopTable' = refreshStopStepsTable(m_isUpdating, stopTable, stopSteps)
    /\ last' = Rec("timer", 0, FALSE, ~m_isUpdating, Len(stopSteps), "none", TRUE)
    /\ UNCHANGED << stopSteps, m_isUpdating, calls, stopOob, spVars, env, planVars, gasVars >>

\* the stop steps a plan starts with
InitStopLists ==
    { << StopStep(21, 6) >>, << StopStep(21, 6), StopStep(6, 6) >> }

\* a window after its construction, with the setpoints dep, sp that file
\* holds and with stop steps from stopLists
WindowBuilt(dep, sp, file, stopLists) ==
    /\ life = "window"
    /\ m_depths = dep
    /\ m_setPoints = sp
    /\ oobRead = FALSE
    /\ spFile = file
    /\ env = [ readable |-> TRUE, writable |-> TRUE ]
    /\ m_maxPpO2Diluent \in { 12 }
    /\ GasIdle
    /\ stopSteps \in stopLists
    /\ m_isUpdating = FALSE
    /\ stopTable = drawStopRows(stopSteps)
    /\ calls = << >>
    /\ timers = 0
    /\ stopOob = FALSE
    /\ m_mode = "CC"
    /\ \E deco \in DecoPlans :
         m_diveProfile = calculate(build(stopSteps, deco), m_mode, m_depths, m_setPoints,
                                   m_maxPpO2Diluent)
    /\ planTable = drawPlanRows(m_diveProfile)
    /\ m_tableDirty = TRUE
    /\ last = Rec("init", 0, FALSE, TRUE, 0, "none", TRUE)

\* the window with its dive-plan section open
InitWindow(dep, sp, file, stopLists) ==
    /\ WindowBuilt(dep, sp, file, stopLists)
    /\ ViewOpen

InitStop ==
    InitWindow(DefaultDepths, DefaultSetPoints, << 4, 1000, 13, 40, 14, 21, 15, 6, 16 >>,
               InitStopLists)

NextStop ==
    \/ AddStopStepEnter
    \/ DeleteStopStepEnter
    \/ StopStepHandlerBuild
    \/ StopStepHandlerReturn
    \/ StopStepCellChangedEnter
    \/ StopStepCellChangedReturn
    \/ FallbackTimer
    \/ Activate

SpecStop == InitStop /\ [][NextStop]_vars

-----------------------------------------------------------------------------
(* build() among the handlers that change the lists it reads *)

InitBuild ==
    InitWindow(<< 40, 6 >>, << 13, 16 >>, << 2, 40, 13, 6, 16 >>, { << StopStep(21, 6) >> })

NextBuild ==
    \/ AddStopStepEnter
    \/ DeleteStopStepEnter
    \/ StopStepHandlerBuild
    \/ StopStepHandlerReturn
    \/ FallbackTimer
    \/ DeleteSetpointGui
    \/ AddSetpointGui

SpecBuild == InitBuild /\ [][NextBuild]_vars

-----------------------------------------------------------------------------
(* The dive-plan table behind its splitter *)

\* most QTimer::singleShot(0, refreshDivePlanTable) calls waiting at a time
MaxScheduled == 1

\* handleSplitterMovement(): "if (m_tableDirty || wasHidden)"
NeedsRefresh(dirty, wasHidden) == dirty \/ wasHidden

\* refreshDivePlanTable(): calculate(), then the rows drawn from the profile
TableRefreshed ==
    LET r == refreshDivePlan(m_diveProfile, m_mode, m_depths, m_setPoints,
                             m_maxPpO2Diluent)
    IN  /\ m_diveProfile' = r.profile
        /\ planTable' = r.table

\* a frame of a handler that is inside the processEvents of resizeDivePlanTable
ViewFrame(name) == [ Frame(name) EXCEPT !.changed = FALSE ]

\* initializeSplitters(), from the timer showEvent starts: the dive-plan
\* section is given the height 0 and its table is hidden
InitializeSplitters ==
    /\ CanDispatch
    /\ planOpen' = FALSE
    /\ planVisible' = FALSE
    /\ last' = Rec("initializeSplitters", 0, FALSE, TRUE, 0, "none", TRUE)
    /\ UNCHANGED << spVars, env, gasVars, stopVars, m_mode, m_diveProfile, planTable,
                    m_bailout, m_tableDirty, refreshScheduled >>

\* handleSplitterMovement() for the dive-plan section of verticalSplitter, as
\* far as the processEvents of its resizeDivePlanTable(); isCollapsed is where
\* the user has left the handle, the snap to 0 included
SplitterMoved ==
    /\ CanDispatch
    /\ \E isCollapsed \in BOOLEAN :
         LET wasHidden == ~planVisible
         IN  /\ planOpen' = ~isCollapsed
             /\ planVisible' = ~isCollapsed
             /\ IF isCollapsed
                THEN /\ m_tableDirty' = TRUE
                     /\ UNCHANGED << m_diveProfile, planTable, refreshScheduled, calls >>
                ELSE /\ IF NeedsRefresh(m_tableDirty, wasHidden)
                        THEN /\ m_tableDirty' = FALSE
                             /\ IF wasHidden
                                THEN /\ TableRefreshed
                                     /\ UNCHANGED refreshScheduled
                                ELSE /\ refreshScheduled < MaxScheduled
                                     /\ refreshScheduled' = refreshScheduled + 1
                                     /\ UNCHANGED << m_diveProfile, planTable >>
                        ELSE UNCHANGED << m_tableDirty, m_diveProfile, planTable,
                                          refreshScheduled >>
                     /\ calls' = Append(calls, ViewFrame("handleSplitterMovement"))
             /\ last' = Rec("handleSplitterMovement", 0, FALSE, ~isCollapsed, 0, "none",
                            TRUE)
    /\ UNCHANGED << spVars, env, gasVars, stopSteps, m_isUpdating, stopTable, timers,
                    stopOob, m_mode, m_bailout >>

\* resizeDivePlanTable(), from a resize event or from one of the timers that
\* showEvent, initializeSplitters and handleSplitterMovement start, as far as
\* its processEvents
ResizeDivePlanTableEnter ==
    /\ CanDispatch
    /\ calls' = Append(calls, ViewFrame("resizeDivePlanTable"))
    /\ last' = Rec("resizeDivePlanTable", 0, FALSE, TRUE, 0, "none", TRUE)
    /\ UNCHANGED << spVars, env, gasVars, stopSteps, m_isUpdating, stopTable, timers,
                    stopOob, planVars >>

\* resizeDivePlanTable() from the return of processEvents on, and with it
\* the handleSplitterMovement that called it: a table that is not visible is
\* marked dirty, a visible one gets its column widths and is marked clean
ResizeDivePlanTableReturn ==
    /\ calls # << >>
    /\ calls[Len(calls)].handler \in { "resizeDivePlanTable", "handleSplitterMovement" }
    /\ m_tableDirty' = ~planVisible
    /\ calls' = SubSeq(calls, 1, Len(calls) - 1)
    /\ last' = RecReturn(calls[Len(calls)], Len(stopSteps))
    /\ UNCHANGED << spVars, env, gasVars, stopSteps, m_isUpdating, stopTable, timers,
                    stopOob, m_mode, m_diveProfile, planTable, m_bailout, planVisible,
                    planOpen, refreshScheduled >>

\* updateSplitterVisibility(verticalSplitter), from m_splitterCheckTimer
SplitterCheck ==
    /\ CanDispatch
    /\ planVisible' = planOpen
    /\ m_tableDirty' = IF planOpen THEN m_tableDirty ELSE TRUE
    /\ last' = Rec("updateSplitterVisibility", 0, FALSE, planOpen, 0, "none", TRUE)
    /\ UNCHANGED << spVars, env, gasVars, stopVars, m_mode, m_diveProfile, planTable,
                    m_bailout, planOpen, refreshScheduled >>

\* the refreshDivePlanTable() that a QTimer::singleShot(0, ...) has scheduled
ScheduledRefresh ==
    /\ CanDispatch
    /\ refreshScheduled > 0
    /\ refreshScheduled' = refreshScheduled - 1
    /\ TableRefreshed
    /\ last' = Rec("refreshDivePlanTable", 0, FALSE, TRUE, 0, "none", TRUE)
    /\ UNCHANGED << spVars, env, gasVars, stopVars, m_mode, m_bailout, m_tableDirty,
                    planVisible, planOpen >>

\* the window as showEvent finds it: the dive-plan section has the height 0
\* that setupSplitters gives it, its table has not been hidden
InitShow ==
    /\ WindowBuilt(<< 40, 6 >>, << 13, 16 >>, << 2, 40, 13, 6, 16 >>,
                   { << StopStep(21, 6) >> })
    /\ m_bailout = FALSE
    /\ planVisible = TRUE
    /\ planOpen = FALSE
    /\ refreshScheduled = 0

NextShow ==
    \/ InitializeSplitters
    \/ SplitterMoved
    \/ ResizeDivePlanTableEnter
    \/ ResizeDivePlanTableReturn
    \/ SplitterCheck
    \/ ScheduledRefresh
    \/ SetpointCellChanged
    \/ SetMaxTime

SpecShow == InitShow /\ [][NextShow]_vars

-----------------------------------------------------------------------------
(* divePlanCellChanged and bailoutToggled *)

COL_PHASE == 0
COL_TIME  == 3

\* numbers a user types into a time cell of the dive-plan table
PlanCellValues == { 6 }

\* a search that takes the last stop step of the depth
matchingStop_Last(st, depth) ==
    LET S == { i \in 0..(Len(st) - 1) : st[i + 1].m_depth = depth }
    IN  IF S = {} THEN -1 ELSE CHOOSE i \in S : \A j \in S : j <= i

\* divePlanCellChanged(): the index, from 0, of the first stop step whose
\* depth is that of the row, and -1 when there is none
matchingStop(st, depth) ==
    LET S == { i \in 0..(Len(st) - 1) : st[i + 1].m_depth = depth }
    IN  IF S = {} THEN -1 ELSE CHOOSE i \in S : \A j \in S : i <= j

\* a rebuild that returns at once
rebuiltProfile_Skips(profile, st, deco, rebuilding) == profile

\* rebuildDivePlan(), as far as the profile goes: build() unless a build()
\* has not returned
rebuiltProfile(profile, st, deco, rebuilding) ==
    IF rebuilding THEN profile ELSE build(st, deco)

\* divePlanCellChanged(row, column) up to its call of processEvents; ok is
\* whether the text of the cell reads as a number, value that number; last
\* keeps the start depth of the row, in boosted whether the row is a STOP, in
\* ok whether the text was a number, and in val the column
DivePlanCellChangedEnter ==
    /\ CanDispatch
    /\ \E row \in 0..(Len(m_diveProfile) - 1), column \in { COL_PHASE, COL_TIME },
          ok \in BOOLEAN, value \in PlanCellValues, deco \in DecoPlans :
         LET step == m_diveProfile[row + 1]
             i == IF column = COL_TIME /\ step.m_phase = "STOP" /\ ok
                  THEN matchingStop(stopSteps, step.m_startDepth)
                  ELSE -1
             st == StopSteps_editStopStep(stopSteps, i, stopSteps[i + 1].m_depth, value)
         IN  IF i >= 0
             THEN /\ stopSteps' = st
                  /\ stopTable' = rebuildDivePlan(m_isUpdating, stopTable, st)
                  /\ PlanRebuilt(refreshDivePlan(
                         rebuiltProfile(m_diveProfile, st, deco, isRebuilding),
                         m_mode, m_depths, m_setPoints, m_maxPpO2Diluent))
                  /\ calls' = Append(calls, [ Frame("divePlanCellChanged")
                                                EXCEPT !.changed = (st # stopSteps) ])
                  /\ last' = Rec("divePlanCellChanged", step.m_startDepth,
                                 step.m_phase = "STOP", ok, column, "none", st = stopSteps)
                  /\ UNCHANGED << m_isUpdating, timers, stopOob >>
             ELSE /\ last' = Rec("divePlanCellChanged", step.m_startDepth,
                                 step.m_phase = "STOP", ok, column, "none", TRUE)
                  /\ UNCHANGED << stopVars, m_diveProfile, planTable, viewVars >>
    /\ UNCHANGED << spVars, env, m_mode, gasVars >>

\* divePlanCellChanged and bailoutToggled from the return of processEvents on
PlanHandlerReturn ==
    /\ calls # << >>
    /\ calls[Len(calls)].handler \in { "divePlanCellChanged", "bailoutToggled" }
    /\ calls' = SubSeq(calls, 1, Len(calls) - 1)
    /\ last' = RecReturn(calls[Len(calls)], Len(stopSteps))
    /\ UNCHANGED << stopSteps, m_isUpdating, stopTable, timers, stopOob,
                    spVars, env, planVars, gasVars >>

\* the mode test of a toggle that takes the box as it is
TakesBailout_Always(mode) == TRUE

\* bailoutToggled(): "if (m_divePlan->m_mode == diveMode::CC)"
TakesBailout(mode) == mode = "CC"

\* bailoutToggled(checked) up to its call of processEvents
BailoutToggledEnter ==
    /\ CanDispatch
    /\ \E checked \in BOOLEAN, deco \in DecoPlans :
         /\ m_bailout' = IF TakesBailout(m_mode) THEN checked ELSE m_bailout
         /\ PlanTakes(refreshDivePlan(
                rebuiltProfile(m_diveProfile, stopSteps, deco, isRebuilding),
                m_mode, m_depths, m_setPoints, m_maxPpO2Diluent), TRUE)
         /\ last' = Rec("bailoutToggled", 0, checked, TRUE, 0, "none", TRUE)
    /\ stopTable' = rebuildDivePlan(m_isUpdating, stopTable, stopSteps)
    /\ calls' = Append(calls, ViewFrame("bailoutToggled"))
    /\ UNCHANGED << stopSteps, m_isUpdating, timers, stopOob, spVars, env, m_mode,
                    gasVars >>

\* the handlers that change the stop steps, from a plan with one stop step
\* at 6 m; the fallback timers, which draw the stop-steps table alone, stay
\* pending
InitEdit ==
    InitWindow(<< 40, 6 >>, << 13, 16 >>, << 2, 40, 13, 6, 16 >>,
               { << StopStep(6, 4) >> })

NextEdit ==
    \/ AddStopStepEnter
    \/ DeleteStopStepEnter
    \/ StopStepHandlerBuild
    \/ StopStepHandlerReturn
    \/ StopStepCellChangedEnter
    \/ StopStepCellChangedReturn
    \/ DivePlanCellChangedEnter
    \/ PlanHandlerReturn

SpecEdit == InitEdit /\ [][NextEdit]_vars

-----------------------------------------------------------------------------
(* The edits of the dive-plan table among addStopStep and deleteStopStep; the
   fallback timers, which draw the stop-steps table alone, stay pending *)

InitPlanEdit ==
    InitWindow(<< 40, 6 >>, << 13, 16 >>, << 2, 40, 13, 6, 16 >>,
               { << StopStep(21, 4) >>, << StopStep(21, 4), StopStep(6, 4) >> })

NextPlanEdit ==
    \/ AddStopStepEnter
    \/ DeleteStopStepEnter
    \/ StopStepHandlerBuild
    \/ StopStepHandlerReturn
    \/ DivePlanCellChangedEnter
    \/ PlanHandlerReturn

SpecPlanEdit == InitPlanEdit /\ [][NextPlanEdit]_vars

-----------------------------------------------------------------------------
(* The bailout box of a window in either mode *)

NextBailout ==
    \/ SetPointsCtor
    \/ DivePlanWindowCtor
    \/ BailoutToggledEnter
    \/ PlanHandlerReturn
    \/ SetMaxTime
    \/ CcModeActivated

SpecBailout == InitPlan /\ [][NextBailout]_vars

-----------------------------------------------------------------------------
(* GasListWindow *)

\* longest gas list the window and its callers add a gas to
MaxGasRows == 1

COL_O2  == 2
COL_HE  == 3
COL_MOD == 4

\* numbers a user types into an O2 or He cell; text that is no number reads as 0
GasCellValues == { -5, 60, 150 }

\* depths typed into the best-gas field
BestGasDepths == { 0, 3, 40 }

\* helium contents the END rule of bestGasForDepth can come to
BestGasHe == { 0 }

\* the PpO2 limit of a gas type, in tenths of a bar
PpO2Limit(type) == IF type = "DECO" THEN 16 ELSE 14

\* Gas::bestGasForDepth(depth, type): the O2 content that meets the limit at
\* the ambient pressure of the depth, floored to a whole percent
bestGasForDepth(depth, type, he) ==
    Gas((PpO2Limit(type) * 100) \div (10 + depth), he, type, "ACTIVE")

\* the rows refreshGasTable draws
drawGasRows(gs) ==
    [ i \in 1..Len(gs) |-> [ o2 |-> gs[i].m_o2Percent, he |-> gs[i].m_hePercent ] ]

\* GasListWindow::GasListWindow
GasListWindowCtor ==
    /\ gasLife = "object"
    /\ gasLife' = "window"
    /\ gasTable' = drawGasRows(gases)
    /\ last' = Rec("GasListWindow", 0, FALSE, TRUE, Len(gases), "none", TRUE)
    /\ UNCHANGED << gases, gasFile, stopVars, spVars, env, planVars >>

\* GasListWindow::addNewGas
AddNewGas ==
    /\ gasLife = "window"
    /\ Len(gases) < MaxGasRows
    /\ LET gs == addGas(gases, 21, 0, "BOTTOM", "ACTIVE")
           w == saveGaslistToFile(gs, gasFile, env.writable)
       IN  /\ gases' = gs
           /\ gasFile' = w.file
           /\ gasTable' = drawGasRows(gs)
           /\ last' = Rec("addNewGas", 0, FALSE, TRUE, Len(gases), "none", gs = gases)
    /\ UNCHANGED << gasLife, stopVars, spVars, env, planVars >>

\* GasListWindow::addBestGas
AddBestGas ==
    /\ gasLife = "window"
    /\ Len(gases) < MaxGasRows
    /\ \E depth \in BestGasDepths, gasType \in { "BOTTOM" }, he \in BestGasHe :
         LET bestGas == bestGasForDepth(depth, gasType, he)
             gs == IF depth <= 0
                   THEN addGas(gases, 21, 0, gasType, "ACTIVE")
                   ELSE addGas(gases, bestGas.m_o2Percent, bestGas.m_hePercent,
                               bestGas.m_gasType, "ACTIVE")
             w == saveGaslistToFile(gs, gasFile, env.writable)
         IN  /\ gases' = gs
             /\ gasFile' = IF depth > 0 /\ gs = gases THEN gasFile ELSE w.file
             /\ gasTable' = IF depth > 0 /\ gs = gases THEN gasTable ELSE drawGasRows(gs)
             /\ last' = Rec("addBestGas", depth, FALSE, gs # gases, Len(gases), "none",
                            gs = gases)
    /\ UNCHANGED << gasLife, stopVars, spVars, env, planVars >>

\* GasListWindow::updateGasFromRow(row), the cells being those of table
updateGasFromRow(gs, table, row) ==
    IF row >= 0 /\ row < Len(gs)
    THEN editGas(gs, row, table[row + 1].o2, table[row + 1].he,
                 gs[row + 1].m_gasType, gs[row + 1].m_gasStatus)
    ELSE gs

\* GasListWindow::cellChanged(row, column) after the user typed one of values
cellChanged(values) ==
    /\ gasLife = "window"
    /\ \E row \in 0..(Len(gasTable) - 1), column \in { COL_O2, COL_HE, COL_MOD },
          value \in values :
         LET typed == IF column = COL_O2 THEN [ gasTable EXCEPT ![row + 1].o2 = value ]
                      ELSE IF column = COL_HE THEN [ gasTable EXCEPT ![row + 1].he = value ]
                      ELSE gasTable
             handled == column = COL_O2 \/ column = COL_HE
             gs == IF handled THEN updateGasFromRow(gases, typed, row) ELSE gases
             threw == handled /\ ~ValidMix(typed[row + 1].o2, typed[row + 1].he)
             w == saveGaslistToFile(gs, gasFile, env.writable)
         IN  /\ gases' = gs
             /\ gasTable' = typed
             /\ gasFile' = IF handled /\ ~threw THEN w.file ELSE gasFile
             /\ last' = Rec("cellChanged", row, FALSE, handled /\ ~threw, Len(gases),
                            "none", gs = gases)
    /\ UNCHANGED << gasLife, stopVars, spVars, env, planVars >>

GasCellChanged == cellChanged(GasCellValues)

\* GasListWindow::deleteGas(row)
DeleteGasGui ==
    /\ gasLife = "window"
    /\ \E row \in 0..(Len(gasTable) - 1) :
         LET gs == deleteGas(gases, row)
             w == saveGaslistToFile(gs, gasFile, env.writable)
         IN  /\ gases' = gs
             /\ gasFile' = w.file
             /\ gasTable' = drawGasRows(gs)
             /\ last' = Rec("deleteGas", row, FALSE, TRUE, Len(gases), "none", FALSE)
    /\ UNCHANGED << gasLife, stopVars, spVars, env, planVars >>

\* GasList::addGas and editGas called by a client with any numbers
AddGasMix ==
    /\ gasLife = "object"
    /\ Len(gases) < MaxGasRows
    /\ \E o2 \in GasCellValues, he \in GasCellValues \cup { 0 } :
         /\ gases' = addGas(gases, o2, he, "BOTTOM", "ACTIVE")
         /\ last' = Rec("addGas", 0, FALSE, ValidMix(o2, he), Len(gases), "none",
                        ~ValidMix(o2, he))
    /\ UNCHANGED << gasTable, stopVars, spVars, env, planVars, gasFile, gasLife >>

EditGasMix ==
    /\ gasLife = "object"
    /\ \E index \in 0..(Len(gases) - 1), o2 \in GasCellValues, he \in GasCellValues \cup { 0 } :
         /\ gases' = editGas(gases, index, o2, he, "DECO", "ACTIVE")
         /\ last' = Rec("editGas", index, FALSE, ValidMix(o2, he), Len(gases), "none",
                        gases' = gases)
    /\ UNCHANGED << gasTable, stopVars, spVars, env, planVars, gasFile, gasLife >>

\* gaslist.dat as the program can find it: absent, one sound record, or a
\* record holding numbers no mix can have
InitGasFiles ==
    { NoFile,
      << 1, 21, 0, "BOTTOM", "ACTIVE" >>,
      << 2, 21, 0, "BOTTOM", "ACTIVE", 150, 0, "DECO", "ACTIVE" >>,
      << 1, 60, 60, "BOTTOM", "ACTIVE" >>,
      << 1, -5, 0, "BOTTOM", "ACTIVE" >> }

InitGas ==
    /\ life = "none"
    /\ m_depths = << >>
    /\ m_setPoints = << >>
    /\ oobRead = FALSE
    /\ spFile = NoFile
    /\ m_maxPpO2Diluent \in { 12 }
    /\ gases = << >>
    /\ gasLife = "none"
    /\ gasTable = << >>
    /\ gasFile \in InitGasFiles
    /\ env = [ readable |-> TRUE, writable |-> TRUE ]
    /\ InitCommon

NextGas ==
    \/ GasListCtor
    \/ LoadGaslist
    \/ LoadGaslistChecked
    \/ AddGasMix
    \/ EditGasMix
    \/ GasListWindowCtor
    \/ AddNewGas
    \/ AddBestGas
    \/ GasCellChanged
    \/ DeleteGasGui

SpecGas == InitGas /\ [][NextGas]_vars

-----------------------------------------------------------------------------
(* The handlers of both windows that save a list after changing it *)

\* GasListWindow::updateTableRow(row): the cells of the row drawn from the gas
updateTableRow(table, gs, row) ==
    IF row >= 0 /\ row < Len(gs) /\ row < Len(table)
    THEN [ table EXCEPT ![row + 1] = drawGasRows(gs)[row + 1] ]
    ELSE table

\* a handler that leaves the file as it was
SavedAfterEdit_Never(gs, file, canOpen) == [ file |-> file, ok |-> TRUE ]

\* "Save changes": g_gasList.saveGaslistToFile() at the end of gasTypeChanged
\* and gasStatusChanged
SavedAfterEdit(gs, file, canOpen) == saveGaslistToFile(gs, file, canOpen)

\* GasListWindow::gasTypeChanged(row, index)
GasTypeChanged ==
    /\ gasLife = "window"
    /\ \E row \in 0..Len(gasTable), gasType \in { "BOTTOM", "DECO" } :
         LET inRange == row >= 0 /\ row < Len(gases)
             gs == IF inRange
                   THEN editGas(gases, row, gases[row + 1].m_o2Percent,
                                gases[row + 1].m_hePercent, gasType,
                                gases[row + 1].m_gasStatus)
                   ELSE gases
             w == SavedAfterEdit(gs, gasFile, env.writable)
         IN  /\ gases' = gs
             /\ gasTable' = IF inRange THEN updateTableRow(gasTable, gs, row) ELSE gasTable
             /\ gasFile' = IF inRange THEN w.file ELSE gasFile
             /\ last' = Rec("gasTypeChanged", row, FALSE, inRange /\ w.ok, Len(gases),
                            "none", gs = gases)
    /\ UNCHANGED << gasLife, stopVars, spVars, env, planVars >>

\* GasListWindow::gasStatusChanged(row, state)
GasStatusChanged ==
    /\ gasLife = "window"
    /\ \E row \in 0..Len(gasTable), gasStatus \in { "ACTIVE", "INACTIVE" } :
         LET inRange == row >= 0 /\ row < Len(gases)
             gs == IF inRange
                   THEN editGas(gases, row, gases[row + 1].m_o2Percent,
                                gases[row + 1].m_hePercent, gases[row + 1].m_gasType,
                                gasStatus)
                   ELSE gases
             w == SavedAfterEdit(gs, gasFile, env.writable)
         IN  /\ gases' = gs
             /\ gasFile' = IF inRange THEN w.file ELSE gasFile
             /\ last' = Rec("gasStatusChanged", row, FALSE, inRange /\ w.ok, Len(gases),
                            "none", gs = gases)
    /\ UNCHANGED << gasTable, gasLife, stopVars, spVars, env, planVars >>

\* the gas list window open on the list that a first start leaves, no
\* DivePlanWindow being open
InitGasWindow ==
    /\ life = "none"
    /\ m_depths = << >>
    /\ m_setPoints = << >>
    /\ oobRead = FALSE
    /\ spFile = NoFile
    /\ m_maxPpO2Diluent \in { 12 }
    /\ gases = << Gas(21, 0, "BOTTOM", "ACTIVE") >>
    /\ gasLife = "window"
    /\ gasTable = drawGasRows(gases)
    /\ gasFile = saveGaslistToFile(gases, NoFile, TRUE).file
    /\ env = [ readable |-> TRUE, writable |-> TRUE ]
    /\ InitCommon

\* the two windows share no list and no file: each is followed on its own
\* numbers typed into a cell of the gas table: one that Gas::Gas rejects and
\* one that it takes as O2 and, next to 60 % O2, rejects as He
SavedCellValues == { -5, 60 }

GasCellSaved == cellChanged(SavedCellValues)

InitSave ==
    \/ InitWindow(<< 40, 6 >>, << 13, 16 >>, << 2, 40, 13, 6, 16 >>,
                  { << StopStep(21, 6) >> })
    \/ InitGasWindow

NextSave ==
    \/ AddNewGas
    \/ AddBestGas
    \/ DeleteGasGui
    \/ GasCellSaved
    \/ GasTypeChanged
    \/ GasStatusChanged
    \/ SetpointCellChanged
    \/ AddSetpointGui
    \/ DeleteSetpointGui

SpecSave == InitSave /\ [][NextSave]_vars

-----------------------------------------------------------------------------
(* Claims *)

Got == last.op = "getSetPointAtDepth"

\* C1: from construction on, every adjacent pair of the setpoint list is in
\* decreasing depth, and in non-increasing setpoint where the depths tie.
C1_SetpointsSorted == life # "none" => Sorted(m_depths, m_setPoints)

\* a cell edit has moved an entry and left two entries at one depth
C1_Witness ==
    /\ life = "window"
    /\ last.op = "setpointCellChanged"
    /\ ~last.kept
    /\ \E i \in 1..(Len(m_depths) - 1) :
         m_depths[i] = m_depths[i + 1] /\ m_setPoints[i] > m_setPoints[i + 1]

\* C2: on a non-empty list, getSetPointAtDepth(d, false) returns setpoints[0].
C2_UnboostedIsDeepest ==
    (Got /\ ~last.boosted /\ Len(m_depths) > 0) => last.val = m_setPoints[1]

\* an unboosted lookup below the shallowest entry, whose setpoint is another
C2_Witness ==
    /\ Got /\ ~last.boosted /\ Len(m_depths) > 1
    /\ last.depth < m_depths[Len(m_depths)]
    /\ m_setPoints[Len(m_depths)] # m_setPoints[1]
    /\ last.val = m_setPoints[1]

FirstBracket(d, i) ==
    /\ d < m_depths[i] /\ d >= m_depths[i + 1]
    /\ \A j \in 1..(i - 1) : ~(d < m_depths[j] /\ d >= m_depths[j + 1])

\* C3: on a non-empty list, getSetPointAtDepth(d, true) is the deepest
\* entry's setpoint when d >= depths[0], the shallowest entry's when
\* d < depths[last], and otherwise setpoints[i] for the first i with
\* d < depths[i] and d >= depths[i+1].
C3_BoostedIsPiecewise ==
    (Got /\ last.boosted /\ Len(m_depths) > 0) =>
        LET d == last.depth
            n == Len(m_depths)
        IN  IF d >= m_depths[1] THEN last.val = m_setPoints[1]
            ELSE IF d < m_depths[n] THEN last.val = m_setPoints[n]
            ELSE \E i \in 1..(n - 1) : FirstBracket(d, i) /\ last.val = m_setPoints[i]

\* a boosted lookup settled by the second bracket, with another value than
\* the deepest entry's
C3_Witness ==
    /\ Got /\ last.boosted /\ Len(m_depths) > 2
    /\ FirstBracket(last.depth, 2)
    /\ last.val = m_setPoints[2]
    /\ m_setPoints[2] # m_setPoints[1]

\* C4: on an empty list getSetPointAtDepth returns m_maxPpO2Diluent, for
\* every depth and both values of boosted.
C4_EmptyFallsBack == (Got /\ m_depths = << >>) => last.val = m_maxPpO2Diluent

\* every entry has been removed and a boosted lookup has run
C4_Witness ==
    /\ Got /\ m_depths = << >> /\ m_setPoints = << >>
    /\ last.boosted
    /\ last.val = m_maxPpO2Diluent

S3List == m_depths = << 40, 6 >> /\ m_setPoints = << 13, 10 >>

Effective(d, boosted) ==
    getSetPointAtDepth(m_depths, m_setPoints, d, boosted, m_maxPpO2Diluent)

\* C5 as claimed: with {(40, 1.3), (6, 1.0)} the setpoint just below 40 m is
\* another than the one at 40 m, and the one just below 6 m is another than
\* the one at 6 m.
C5_TransitionsAt40And6 ==
    (S3List /\ Got) =>
        /\ last.depth = 39 => last.val # Effective(40, last.boosted)
        /\ last.depth = 5 => last.val # Effective(6, last.boosted)

\* C5 as amended: boosted, the setpoint is 1.3 from 6 m down (so the same at
\* 40 m and just below it) and 1.0 above 6 m; unboosted it is 1.3 everywhere.
C5_TransitionAt6Only ==
    (S3List /\ Got) =>
        IF last.boosted
        THEN last.val = (IF last.depth >= 6 THEN 13 ELSE 10)
        ELSE last.val = 13

\* the boosted lookup just above the 6 m entry has returned 1.0
C5_Witness ==
    /\ S3List /\ Got /\ last.boosted
    /\ last.depth = 5
    /\ last.val = 10

Built == last.op = "SetPoints"

\* C6: a SetPoints built with no setpoints.dat in a writable directory holds
\* exactly the four default entries, in order, and has written them.
C6_MissingFileGivesFourDefaults ==
    (Built /\ last.fileWas = "missing" /\ env.writable) =>
        /\ m_depths = DefaultDepths
        /\ m_setPoints = DefaultSetPoints
        /\ spFile = << 4, 1000, 13, 40, 14, 21, 15, 6, 16 >>

GasLoaded == last.op = "loadGaslistFromFile"
SpLoaded  == last.op = "loadSetPointsFromFile"

\* the file holds the count of gs and then the four fields of each gas
HoldsGases(file, gs) ==
    /\ Len(file) = 1 + 4 * Len(gs)
    /\ file[1] = Len(gs)
    /\ \A i \in 1..Len(gs) :
         /\ file[4 * i - 2] = gs[i].m_o2Percent
         /\ file[4 * i - 1] = gs[i].m_hePercent
         /\ file[4 * i] = gs[i].m_gasType
         /\ file[4 * i + 1] = gs[i].m_gasStatus

\* C7: with no gaslist.dat, loadGaslistFromFile returns false, leaves an
\* empty list holding the one gas 21/0 Bottom Active, leaves a non-empty
\* list as it was, and (the directory being writable) writes the list.
C7_MissingGasFileSeedsOneGas ==
    ((GasLoaded \/ last.op = "GasList") /\ last.fileWas = "missing") =>
        /\ ~last.ok
        /\ last.val = 0 => gases = << Gas(21, 0, "BOTTOM", "ACTIVE") >>
        /\ last.val > 0 => last.kept
        /\ env.writable => HoldsGases(gasFile, gases)

\* the load of the constructor, which found no file and an empty list, seeded
\* the list and wrote the file
C7_Witness ==
    /\ last.op = "GasList" /\ last.fileWas = "missing"
    /\ last.val = 0 /\ ~last.ok
    /\ gases = << Gas(21, 0, "BOTTOM", "ACTIVE") >>
    /\ HoldsGases(gasFile, gases)

\* C8 as claimed: a load that returns true right after a save that returned
\* true leaves the list as it was, for both lists and every length.
C8_RoundTrip ==
    ((GasLoaded \/ SpLoaded) /\ last.afterSave /\ last.ok) => last.kept

\* C8 as amended: the same for every gas list and every non-empty setpoint
\* list; an empty setpoint list comes back as the four default entries.
C8_RoundTripButEmptySetpoints ==
    /\ (GasLoaded /\ last.afterSave /\ last.ok) => last.kept
    /\ (SpLoaded /\ last.afterSave /\ last.ok /\ last.val > 0) => last.kept
    /\ (SpLoaded /\ last.afterSave /\ last.ok /\ last.val = 0) =>
           m_depths = DefaultDepths /\ m_setPoints = DefaultSetPoints

\* two gases, one of them an inactive deco mix, saved and loaded back
C8_Witness ==
    /\ GasLoaded /\ last.afterSave /\ last.ok /\ last.kept
    /\ Len(gases) = 2
    /\ \E i \in 1..2 : gases[i] = Gas(50, 0, "DECO", "INACTIVE")

\* C9: a load that returns false on a file that exists leaves the list as it
\* was before the call.
C9_FailedLoadKeepsList ==
    ((GasLoaded \/ SpLoaded) /\ ~last.ok /\ last.fileWas # "missing") => last.kept


\* C10: through the handlers addStopStep, deleteStopStep and
\* stopStepCellChanged of the window, in any order and nested in one
\* another's processEvents, the stop-step list never has fewer than one
\* element, and a deleteStopStep that finds one element leaves the list alone.
C10_AtLeastOneStopStep ==
    /\ Len(stopSteps) >= 1
    /\ (last.op = "deleteStopStep" /\ last.val = 1) => last.kept

\* a deleteStopStep that passed the m_isUpdating test on a one-element list
C10_Witness ==
    /\ last.op = "deleteStopStep"
    /\ last.ok
    /\ last.val = 1
    /\ Len(stopSteps) = 1


\* C11: from the end of the DivePlanWindow constructor on, through
\* addSetpoint, deleteSetpoint and setpointCellChanged in any order, the
\* setpoint list has at least one entry, and a deleteSetpoint that finds one
\* entry, or is given a row past the end, leaves the list as it was.
C11_AtLeastOneSetpoint ==
    life = "window" =>
        /\ Len(m_depths) >= 1
        /\ Len(m_setPoints) >= 1
        /\ (last.op = "deleteSetpoint" /\ (last.val = 1 \/ last.depth >= last.val))
               => last.kept

\* deleteSetpoint(0) on the one entry the constructor adds when the file
\* cannot be opened
C11_Witness ==
    /\ life = "window"
    /\ last.op = "deleteSetpoint" /\ last.val = 1 /\ last.depth = 0
    /\ m_depths = << 0 >> /\ m_setPoints = << 7 >>


PpO2LimitOf(step) ==
    IF step.m_phase \in { "DESCENT", "BOTTOM" } THEN PpO2Bottom ELSE m_PpO2Deco

C13_OverLimitIsFlagged ==
    life = "window" =>
        \A i \in 1..Len(planTable) :
            m_diveProfile[i].m_phase \in { "DESCENT", "BOTTOM", "DECOSTOP" } =>
                \/ m_diveProfile[i].m_pO2Max <= PpO2LimitOf(m_diveProfile[i])
                \/ planTable[i].pO2Warn

\* a closed-circuit bottom step at the typed setpoint of 1.5 bar, above the
\* bottom limit and below the deco limit, drawn without a highlight
C13_UnflaggedBottomStep ==
    /\ life = "window"
    /\ ~oobRead
    /\ last.op = "setpointCellChanged"
    /\ \E i \in 1..Len(planTable) :
         /\ m_diveProfile[i].m_phase = "BOTTOM"
         /\ m_diveProfile[i].m_pO2Max = 150
         /\ ~planTable[i].pO2Warn

\* C14: setMaxTime writes the max time into the first Stop or DecoStop step
\* of the profile and into no other step: every other step, the descent
\* step at index 0 included, keeps its time, and the list keeps its length.
FirstStopOrDecoStop(profile) ==
    LET S == { i \in 1..Len(profile) : profile[i].m_phase \in { "STOP", "DECOSTOP" } }
    IN  IF S = {} THEN 0 ELSE CHOOSE i \in S : \A j \in S : i <= j

ServiceRan == last.op \in { "setMaxTime", "optimiseDecoGas" }

C15_CancelledRunLeavesPlan ==
    (ServiceRan /\ last.cancel) => (~last.ok /\ last.kept)

\* C16: while DivePlan::build() executes no handler changes the stop-step
\* list, the setpoint list or the gas list, and build() is not entered
\* while an earlier build() of rebuildDivePlan has not returned.
BuildsRunning == Cardinality({ i \in 1..Len(calls) : calls[i].at = "build" })

Structure(profile) ==
    [ i \in 1..Len(profile) |->
        << profile[i].m_phase, profile[i].m_startDepth, profile[i].m_endDepth,
           profile[i].m_time >> ]

SetpointHandlerRan(op) == op \in { "setpointCellChanged", "addSetpoint", "deleteSetpoint" }

C17_SetpointChangeKeepsStructure ==
    [][ SetpointHandlerRan(last'.op) =>
            Structure(m_diveProfile') = Structure(m_diveProfile) ]_vars

\* the setpoint was typed over after setMaxTime had lengthened the first
\* stop: the bottom step's pO2 follows, the stop keeps its 9 minutes
C17_Witness ==
    /\ last.op = "setpointCellChanged" /\ last.ok
    /\ m_diveProfile[2].m_phase = "BOTTOM" /\ m_diveProfile[2].m_pO2Max = 150
    /\ m_diveProfile[4].m_phase = "STOP" /\ m_diveProfile[4].m_time = 9
    /\ stopSteps[1].m_time = 6

\* C18: when loadSetPointsFromFile returns false during the construction of
\* DivePlanWindow (setpoints.dat missing or unreadable) the construction
\* goes on and the first calculate() runs with the documented defaults
\* {(1000, 1.3), (40, 1.4), (21, 1.5), (6, 1.6)}.
WindowBuiltWithoutFile == last.op = "DivePlanWindow" /\ ~last.ok

C18_FailedLoadGivesDefaults ==
    WindowBuiltWithoutFile =>
        /\ life = "window"
        /\ m_depths = DefaultDepths /\ m_setPoints = DefaultSetPoints
        /\ m_diveProfile =
               calculate(m_diveProfile, m_mode, DefaultDepths, DefaultSetPoints,
                         m_maxPpO2Diluent)
        /\ m_diveProfile # << >>

\* the missing file in a directory that cannot be written: the defaults
C18_MissingFileDefaults ==
    /\ WindowBuiltWithoutFile
    /\ last.fileWas = "missing"
    /\ m_depths = DefaultDepths /\ m_setPoints = DefaultSetPoints

\* the file that cannot be opened: the single setpoint (0 m, 0.7 bar)
C18_UnreadableFileOneSetpoint ==
    /\ WindowBuiltWithoutFile
    /\ last.fileWas = "unopenable"
    /\ m_depths = << 0 >> /\ m_setPoints = << 7 >>

\* C19: when addStopStep or deleteStopStep returns after it has changed the
\* stop-step list, the stop-steps table has one row per stop step and row i
\* shows the depth and the time of stop step i.
TableShows(table, st) ==
    /\ Len(table) = Len(st)
    /\ \A i \in 1..Len(st) :
         table[i].depth = st[i].m_depth /\ table[i].time = st[i].m_time

StopListHandlerReturned ==
    /\ last.op = "return"
    /\ last.handler \in { "addStopStep", "deleteStopStep" }
    /\ ~last.kept

C19_TableUpdatedAtReturn ==
    StopListHandlerReturned => TableShows(stopTable, stopSteps)

\* C20: once no handler is running and every fallback timer that
\* addStopStep and deleteStopStep scheduled has fired, the stop-steps table
\* has one row per stop step, with that step's depth and time.
C20_TableCatchesUp ==
    (calls = << >> /\ timers = 0) => TableShows(stopTable, stopSteps)

\* the timer of an addStopStep that made the list two long has drawn it
C20_Witness ==
    /\ calls = << >> /\ timers = 0
    /\ last.op = "timer" /\ last.ok
    /\ stopSteps = << StopStep(21, 6), StopStep(21, 6) >>
    /\ Len(stopTable) = 2

\* C21: m_isUpdating is a re-entrancy lock: the guarded bodies of
\* addStopStep, deleteStopStep, refreshStopStepsTable and activate do not
\* run nested in one another, a call that finds the flag set returns with
\* the list and the table as they were, and the flag is false whenever no
\* handler is running.
GuardedBodiesRunning ==
    Cardinality({ i \in 1..Len(calls) :
                    calls[i].handler \in { "addStopStep", "deleteStopStep" } })

FoundFlagSet(rec) ==
    rec.op \in { "addStopStep", "deleteStopStep", "timer", "activate" } /\ ~rec.ok

C21_UpdatingFlagIsLock ==
    [][ /\ GuardedBodiesRunning' <= 1
        /\ GuardedBodiesRunning' = 1 => m_isUpdating'
        /\ FoundFlagSet(last') =>
               /\ m_isUpdating /\ m_isUpdating'
               /\ stopSteps' = stopSteps /\ stopTable' = stopTable
        /\ calls' = << >> => ~m_isUpdating' ]_vars

\* an addStopStep that arrived in the processEvents of a deleteStopStep
\* and returned at its test of the flag
C21_Witness ==
    /\ last.op = "addStopStep" /\ ~last.ok
    /\ Len(calls) = 1 /\ calls[1].handler = "deleteStopStep"
    /\ m_isUpdating

\* the dive-plan table shows rows older than the last calculate()
TableStale == planTable # drawPlanRows(m_diveProfile)

\* C22: the dive-plan table is never visible with a height above 0 while it
\* shows rows older than the last calculate() unless a refreshDivePlanTable
\* is scheduled, and m_tableDirty is cleared only when the rows are those of
\* the profile
C22_ShownTableIsFresh ==
    [][ /\ (TableShown' /\ TableStale') => refreshScheduled' > 0
        /\ (m_tableDirty /\ ~m_tableDirty') => ~TableStale' ]_vars


\* a handler that changed the stop steps has returned
StopListChangerReturned ==
    /\ last.op = "return"
    /\ ~last.kept
    /\ last.handler \in { "addStopStep", "deleteStopStep", "stopStepCellChanged",
                          "divePlanCellChanged" }

\* C23: when a handler that changed the stop steps returns, the profile is
\* the one that build() and then calculate() give from the stop steps as
\* they now are
C23_ProfileBuiltAfterChange ==
    StopListChangerReturned =>
        \E deco \in DecoPlans :
            m_diveProfile = calculate(build(stopSteps, deco), m_mode, m_depths,
                                      m_setPoints, m_maxPpO2Diluent)

\* divePlanCellChanged has changed a stop time and returned
C23_Witness ==
    /\ StopListChangerReturned
    /\ last.handler = "divePlanCellChanged"
    /\ \E i \in 1..Len(stopSteps) : stopSteps[i].m_time = 6

\* the stop steps, counted from 1, that have the depth
StopsAtDepth(st, depth) == { i \in 1..Len(st) : st[i].m_depth = depth }

\* C24: divePlanCellChanged changes the stop steps only for a number typed
\* into the time column of a STOP row whose start depth is that of a stop
\* step: the first such stop step takes the number as its time and keeps its
\* depth, every other stop step stays; in every other case the list stays
C24_EditSetsFirstMatchingTime ==
    [][ last'.op = "divePlanCellChanged" =>
          LET S == StopsAtDepth(stopSteps, last'.depth)
          IN  IF last'.val = COL_TIME /\ last'.boosted /\ last'.ok /\ S # {}
              THEN LET f == CHOOSE i \in S : \A j \in S : i <= j
                   IN  /\ Len(stopSteps') = Len(stopSteps)
                       /\ stopSteps'[f].m_time \in PlanCellValues
                       /\ stopSteps'[f].m_depth = stopSteps[f].m_depth
                       /\ \A j \in 1..Len(stopSteps) :
                            j # f => stopSteps'[j] = stopSteps[j]
              ELSE stopSteps' = stopSteps ]_vars

\* of two stop steps at 21 m the first has taken the time typed into a row
C24_Witness ==
    /\ last.op = "divePlanCellChanged"
    /\ stopSteps = << StopStep(21, 6), StopStep(21, 4) >>

\* a number typed into the time cell of a STOP row whose depth no stop step has
C24_UnmatchedWitness ==
    /\ last.op = "divePlanCellChanged"
    /\ last.val = COL_TIME /\ last.boosted /\ last.ok
    /\ StopsAtDepth(stopSteps, last.depth) = {}

\* a handler of GasListWindow that changed the gas list has returned
GasHandlerChanged ==
    /\ last.op \in { "addNewGas", "addBestGas", "deleteGas", "cellChanged",
                     "gasTypeChanged", "gasStatusChanged" }
    /\ ~last.kept

\* a handler of DivePlanWindow that changed the setpoints has returned with
\* its save done
SetpointHandlerSaved ==
    /\ last.op \in { "setpointCellChanged", "addSetpoint", "deleteSetpoint" }
    /\ ~last.kept
    /\ last.ok

\* C25: after a handler that changed the gas list or the setpoints and
\* saved, the file decodes to the list in memory
C25_FilesTrackLists ==
    /\ (GasHandlerChanged /\ env.writable) =>
           LET r == readGases(gasFile, readField(gasFile, 1, 0), 0, << >>)
           IN  gasFile # NoFile /\ ~r.threw /\ r.gases = gases
    /\ SetpointHandlerSaved =>
           LET l == loadSetPointsFromFile(spFile, TRUE, TRUE, NoGarbage)
           IN  l.ok /\ l.depths = m_depths /\ l.setPoints = m_setPoints

\* gasStatusChanged has made the one gas inactive and saved it
C25_Witness ==
    /\ GasHandlerChanged
    /\ last.op = "gasStatusChanged"
    /\ gases[1].m_gasStatus = "INACTIVE"
    /\ readGases(gasFile, readField(gasFile, 1, 0), 0, << >>).gases = gases

\* C26: bailoutToggled sets m_bailout to the state of the box when the mode
\* is CC and leaves it in every other mode; it never changes m_mode, and in
\* every mode the profile is built and calculated anew
C26_BailoutOnlyInCC ==
    [][ last'.op = "bailoutToggled" =>
          /\ m_mode' = m_mode
          /\ m_bailout' = IF m_mode = "CC" THEN last'.boosted ELSE m_bailout
          /\ \E deco \in DecoPlans :
               m_diveProfile' = calculate(build(stopSteps, deco), m_mode, m_depths,
                                          m_setPoints, m_maxPpO2Diluent) ]_vars

\* the box was checked in OC mode: m_bailout stayed false, and the stop time
\* that setMaxTime had written went with the rebuild
C26_Witness ==
    /\ last.op = "bailoutToggled"
    /\ last.boosted
    /\ m_mode = "OC"
    /\ ~m_bailout
    /\ m_diveProfile[4].m_time = 6
    /\ Len(calls) = 2

\* C27: a row of the stop-steps table and of the setpoints table carries a
\* delete button exactly when the list has more than one entry, so that no
\* button is offered on the only entry of a list
C27_ButtonOnlyWithTwoEntries ==
    /\ \A i \in 1..Len(stopTable) : stopTable[i].button <=> Len(stopSteps) > 1
    /\ life = "window" =>
          \A i \in 1..Len(m_depths) :
              drawSetpointRows(m_depths, m_setPoints)[i].button <=> Len(m_depths) > 1

\* C28: no handler of the stop-steps table has indexed the stop steps with a
\* row that the list does not have
C28_RowsInRange == ~stopOob

\* C29: the depths and the setpoints are equally many in every state, and
\* sortSetPoints has never read the setpoints past their end
C29_EqualLengths ==
    /\ Len(m_depths) = Len(m_setPoints)
    /\ ~oobRead

\* C30: when no handler of the window is running, every STOP step of the
\* profile lasts as long as a stop step of the list at its depth
C30_StopsMatchStopSteps ==
    (life = "window" /\ calls = << >>) =>
        \A i \in 1..Len(m_diveProfile) :
            m_diveProfile[i].m_phase = "STOP" =>
                \E k \in StopsAtDepth(stopSteps, m_diveProfile[i].m_startDepth) :
                    stopSteps[k].m_time = m_diveProfile[i].m_time
=============================================================================
